---- MODULE Spec2Model ----
(***************************************************************************)
(* A model of the hourglass crate: the virtual clock (TestTimeProvider),   *)
(* the real clock (SystemTimeProvider), the gated wrapper                  *)
(* (SafeTimeProvider) and the control handle (TimeControl).                *)
(*                                                                         *)
(* Instants (DateTime<Utc>) and durations (chrono::Duration) are integers  *)
(* counted in one unit (hours); Duration::zero() is 0.  An                 *)
(* Arc<TestTimeProvider> is the index of its state in `clocks`, an         *)
(* Option<T> is a set with at most one element.                            *)
(*                                                                         *)
(* Tasks are tokio tasks.  A task's position inside an async call is       *)
(* pc[t]; the locals of the call are frame[t].  The RwLock of a clock is   *)
(* explicit: lock[c] is the task holding the write guard.  A read guard    *)
(* (now, total_waited, wait_call_count) is taken, used and dropped inside  *)
(* one expression, so a read is one step enabled when no writer holds the  *)
(* lock.                                                                   *)
(***************************************************************************)
EXTENDS Integers, Sequences, FiniteSets, TLC

VARIABLES
    clocks,     \* clocks[c]: the TestState behind Arc<RwLock<TestState>> number c
    lock,       \* lock[c]: the task holding the write guard of clock c, or NoTask
    safe,       \* safe[p]: the SafeTimeProvider values that exist
    origin,     \* origin[p]: how safe[p] was constructed (history)
    controls,   \* controls[k]: the TimeControl handles that exist
    sys_time,   \* the real clock read by Utc::now()
    pc,         \* pc[t]: where task t is
    frame,      \* frame[t]: locals of the call task t is in, or of its last call
    budget,     \* number of calls the tasks may still issue
    tracked,    \* tracked[c] (history): the start of clock c, the wait calls issued
                \* on it since new / reset_wait_tracking (n, sum), the number of
                \* steps that moved it backward (back), what the control
                \* handle did to it (shifted: the sum of the durations of the
                \* advance calls applied to it, plus the distance each set
                \* moved it, plus the total each reset_wait_tracking dropped),
                \* and whether the caller holds its Arc<TestTimeProvider> (held)
    env,        \* the process environment: the variables TIME_SOURCE and TIME_START
    loaded,     \* (history) the selector the last TimeSource::from_env returned,
                \* with the environment it read
    services    \* services[t]: the ScheduledService task t runs, if any: its
                \* provider, the locals of its loop and its executions

vars == <<clocks, lock, safe, origin, controls, sys_time, pc, frame, budget, tracked,
          services, env, loaded>>

provVars == <<safe, origin, controls>>

-----------------------------------------------------------------------------
(* Bounds of the model *)

NumTasks == 2       \* tasks sharing a clock
MaxCalls == 2       \* calls issued in one behaviour, over all tasks
MaxDur == 1         \* longest duration
MaxProviders == 2   \* SafeTimeProvider values constructed in one behaviour
MaxSysTime == 1     \* ticks of the real clock
ServiceHours == 3   \* hours the hourly service runs for
AdvanceCount == 3   \* advance(1h) calls of the controller beside it

NoTask == 0

Tasks == 1..NumTasks
NonNegDurations == 0..MaxDur
Durations == {0 - 1} \cup NonNegDurations
Instants == 0..(MaxDur + 1)
Starts == {0, 1}

-----------------------------------------------------------------------------
(* TestTimeProvider: the state and its operations *)

\* Variants of the operations below, each with one plausible slip: an advance
\* that is counted as waiting; a reset that forgets the call count.
TestTimeProvider_advance_waited(state, duration) ==
    [state EXCEPT !.current_time = state.current_time + duration,
                  !.total_waited = state.total_waited + duration]

TestTimeProvider_reset_total_only(state) ==
    [state EXCEPT !.total_waited = 0]

\* Another new: the clock starts at a fixed instant, whatever start is given.
TestTimeProvider_new_epoch(start) ==
    [current_time |-> 0, total_waited |-> 0, wait_call_count |-> 0]

TestTimeProvider_new(start) ==
    [current_time |-> start, total_waited |-> 0, wait_call_count |-> 0]

\* Another advance: a negative duration is ignored.
TestTimeProvider_advance_forward(state, duration) ==
    IF duration > 0
    THEN [state EXCEPT !.current_time = state.current_time + duration]
    ELSE state

\* Another advance: the clock is moved the other way.
TestTimeProvider_advance_back(state, duration) ==
    [state EXCEPT !.current_time = state.current_time - duration]

TestTimeProvider_advance(state, duration) ==
    [state EXCEPT !.current_time = state.current_time + duration]

\* Another set: the clock is only ever put forward.
TestTimeProvider_set_forward(state, time) ==
    IF time > state.current_time THEN [state EXCEPT !.current_time = time] ELSE state

TestTimeProvider_set(state, time) ==
    [state EXCEPT !.current_time = time]

TestTimeProvider_total_waited(state) == state.total_waited

TestTimeProvider_reset_wait_tracking(state) ==
    [state EXCEPT !.total_waited = 0, !.wait_call_count = 0]

TestTimeProvider_wait_call_count(state) == state.wait_call_count

TestTimeProvider_now(state) == state.current_time

\* Variants of the definitions below, each with one plausible slip.
wait_current_time_skipped(state, duration) == state

wait_current_time_reversed(state, duration) ==
    [state EXCEPT !.current_time = state.current_time - duration]

wait_current_time_assigned(state, duration) ==
    [state EXCEPT !.current_time = duration]

wait_total_waited_assigned(state, duration) ==
    [state EXCEPT !.total_waited = duration]

wait_until_inclusive(deadline, now) ==
    IF deadline >= now THEN {deadline - now} ELSE {}

wait_until_absolute(deadline, now) ==
    IF deadline > now THEN {deadline} ELSE {}

wait_until_short(deadline, now) ==
    IF deadline > now THEN {deadline - now - 1} ELSE {}

wait_wait_call_count_first(state) ==
    [state EXCEPT !.wait_call_count = 1]

\* Another wait: only a duration that moves the clock forward is applied.
wait_current_time_forward(state, duration) ==
    IF duration > 0
    THEN [state EXCEPT !.current_time = state.current_time + duration]
    ELSE state

\* The three assignments of wait's critical section, in the order of the code.
wait_current_time(state, duration) ==
    [state EXCEPT !.current_time = state.current_time + duration]

wait_total_waited(state, duration) ==
    [state EXCEPT !.total_waited = state.total_waited + duration]

wait_wait_call_count(state) ==
    [state EXCEPT !.wait_call_count = state.wait_call_count + 1]

\* wait_until: the duration handed to wait, if any, given the now() it read.
TestTimeProvider_wait_until(deadline, now) ==
    IF deadline > now THEN {deadline - now} ELSE {}

TestTimeProvider_is_test == TRUE

-----------------------------------------------------------------------------
(* SystemTimeProvider *)

\* A variant with one plausible slip: the magnitude of a negative duration
\* is slept.
SystemTimeProvider_wait_abs(duration) ==
    IF duration >= 0 THEN {duration} ELSE {0 - duration}

\* Another: the interval is truncated to a coarser unit before the sleep.
SystemTimeProvider_wait_truncated(duration) ==
    IF duration >= 1 THEN {duration - 1} ELSE IF duration >= 0 THEN {duration} ELSE {}

\* wait: duration.to_std() is Ok exactly for a non-negative duration; the
\* result is the interval slept, if any.
SystemTimeProvider_wait(duration) ==
    IF duration >= 0 THEN {duration} ELSE {}

\* wait_until: the duration handed to wait, if any, given the now() it read.
\* Another wait_until: a deadline equal to now() is waited for as well.
SystemTimeProvider_wait_until_inclusive(deadline, now) ==
    IF deadline >= now THEN {deadline - now} ELSE {}

SystemTimeProvider_wait_until(deadline, now) ==
    IF deadline > now THEN {deadline - now} ELSE {}

SystemTimeProvider_is_test == FALSE

-----------------------------------------------------------------------------
(* TimeSource, TimeControl, SafeTimeProvider *)

System == [kind |-> "System", start |-> 0]
Test(start) == [kind |-> "Test", start |-> start]
TestNow == [kind |-> "TestNow", start |-> 0]

TimeSources == {System, TestNow} \cup {Test(s) : s \in Starts}

\* The process environment as std::env::var sees it.  A variable is unset, set
\* to something that is not valid Unicode, or set to a text; var() is Ok only
\* for a text.  The text of TIME_START is kept by its structure: whether it
\* has the RFC3339 form, and the local hour and the UTC offset (in hours) it
\* denotes.
SourceTexts == {"test", "system", "TEST"}
StartTexts ==
    {[form |-> "rfc3339", local |-> l, offset |-> o] : l \in {0, 1}, o \in {0, 1}}
        \cup {[form |-> "malformed", local |-> 0, offset |-> 0]}
NoStartText == [form |-> "malformed", local |-> 0, offset |-> 0]

SourceVars ==
    {[state |-> "unset", text |-> ""], [state |-> "not_unicode", text |-> ""]}
        \cup {[state |-> "set", text |-> x] : x \in SourceTexts}
StartVars ==
    {[state |-> "unset", text |-> NoStartText],
     [state |-> "not_unicode", text |-> NoStartText]}
        \cup {[state |-> "set", text |-> x] : x \in StartTexts}

NoEnv == [TIME_SOURCE |-> [state |-> "unset", text |-> ""],
          TIME_START |-> [state |-> "unset", text |-> NoStartText]]
NoLoaded == [read |-> FALSE, selector |-> System, env |-> NoEnv]

\* std::env::var(name): Ok(text) for a variable set to a text, Err otherwise
std_env_var(variable) == IF variable.state = "set" THEN {variable.text} ELSE {}

\* DateTime::parse_from_rfc3339: Ok(local time with its offset) exactly for a
\* text of the RFC3339 form
DateTime_parse_from_rfc3339(text) ==
    IF text.form = "rfc3339" THEN {[local |-> text.local, offset |-> text.offset]}
                             ELSE {}

\* DateTime<FixedOffset>::with_timezone(&Utc): the same instant, read in UTC
with_timezone_Utc(start_time) == start_time.local - start_time.offset

\* Another from_env: a TIME_START that does not parse means no virtual clock.
TimeSource_from_env_strict(e) ==
    IF std_env_var(e.TIME_SOURCE) = {"test"}
    THEN LET parsed == UNION {DateTime_parse_from_rfc3339(start_str) :
                                 start_str \in std_env_var(e.TIME_START)}
         IN  IF parsed # {}
             THEN Test(with_timezone_Utc(CHOOSE start_time \in parsed : TRUE))
             ELSE System
    ELSE System

\* TimeSource::from_env
TimeSource_from_env(e) ==
    IF std_env_var(e.TIME_SOURCE) = {"test"}
    THEN IF std_env_var(e.TIME_START) # {}
         THEN LET start_str == CHOOSE text \in std_env_var(e.TIME_START) : TRUE
                  parsed == DateTime_parse_from_rfc3339(start_str)
              IN  IF parsed # {}
                  THEN Test(with_timezone_Utc(CHOOSE start_time \in parsed : TRUE))
                  ELSE TestNow
         ELSE TestNow
    ELSE System

TimeControl_new(provider) == [provider |-> provider]

TimeControl_total_waited(control) ==
    TestTimeProvider_total_waited(clocks[control.provider])

TimeControl_wait_call_count(control) ==
    TestTimeProvider_wait_call_count(clocks[control.provider])

\* A variant with one plausible slip: every virtual-clock provider is built on
\* one process-wide clock, the first one made.
SafeTimeProvider_new_shared(source, fresh) ==
    CASE source.kind = "System" ->
            [inner |-> [kind |-> "system", clock |-> 0], test_provider |-> {}]
      [] source.kind = "Test" ->
            [inner |-> [kind |-> "test", clock |-> 1], test_provider |-> {1}]
      [] source.kind = "TestNow" ->
            [inner |-> [kind |-> "test", clock |-> 1], test_provider |-> {1}]

\* Variants with one plausible slip: the TestNow arm copied from the System
\* arm without keeping the typed reference; a clone that drops it.
SafeTimeProvider_new_untyped(source, fresh) ==
    CASE source.kind = "System" ->
            [inner |-> [kind |-> "system", clock |-> 0], test_provider |-> {}]
      [] source.kind = "Test" ->
            [inner |-> [kind |-> "test", clock |-> fresh], test_provider |-> {fresh}]
      [] source.kind = "TestNow" ->
            [inner |-> [kind |-> "test", clock |-> fresh], test_provider |-> {}]

SafeTimeProvider_clone_untyped(self) ==
    [inner |-> self.inner, test_provider |-> {}]

\* Two more: a test_control that hands out the handle of the first clock
\* made; a clone whose inner provider is rebuilt from the default selector
\* (TimeSource::System) while the typed reference is copied.
SafeTimeProvider_test_control_first(self) ==
    {TimeControl_new(1) : provider \in self.test_provider}

SafeTimeProvider_clone_default_inner(self) ==
    [inner |-> [kind |-> "system", clock |-> 0], test_provider |-> self.test_provider]

\* `fresh` is the Arc<TestTimeProvider> the constructor allocates for a
\* virtual-clock selector.
SafeTimeProvider_new(source, fresh) ==
    CASE source.kind = "System" ->
            [inner |-> [kind |-> "system", clock |-> 0], test_provider |-> {}]
      [] source.kind = "Test" ->
            [inner |-> [kind |-> "test", clock |-> fresh], test_provider |-> {fresh}]
      [] source.kind = "TestNow" ->
            [inner |-> [kind |-> "test", clock |-> fresh], test_provider |-> {fresh}]

\* Another new_from_test_provider: the provider is wrapped as the inner
\* capability only, and no handle is kept for control.
SafeTimeProvider_new_from_test_provider_inner_only(provider) ==
    [inner |-> [kind |-> "test", clock |-> provider], test_provider |-> {}]

\* Another new_from_test_provider: the inner capability is a provider of its
\* own, and only the control handle goes to the provider given.
SafeTimeProvider_new_from_test_provider_apart(provider) ==
    [inner |-> [kind |-> "test", clock |-> 1], test_provider |-> {provider}]

SafeTimeProvider_new_from_test_provider(provider) ==
    [inner |-> [kind |-> "test", clock |-> provider], test_provider |-> {provider}]

SafeTimeProvider_is_test_mode(self) ==
    IF self.inner.kind = "test" THEN TestTimeProvider_is_test
                                ELSE SystemTimeProvider_is_test

\* now() delegates to the inner provider: the virtual clock or Utc::now().
SafeTimeProvider_now(self) ==
    IF self.inner.kind = "test" THEN TestTimeProvider_now(clocks[self.inner.clock])
                                ELSE sys_time

SafeTimeProvider_test_control(self) ==
    {TimeControl_new(provider) : provider \in self.test_provider}

SafeTimeProvider_clone(self) ==
    [inner |-> self.inner, test_provider |-> self.test_provider]

-----------------------------------------------------------------------------
(* Task frames *)

NoFrame ==
    [op |-> "none", p |-> 0, c |-> 0, duration |-> 0, deadline |-> 0, now |-> 0,
     before |-> TestTimeProvider_new(0), back |-> 0, result |-> {}]

\* The frame of a call of `op` on clock c (0 for the real clock) reached
\* through provider p (0 for a control handle); `before` is the clock state
\* and `back` the clock's count of backward steps at the moment of the call.
NewFrame(op, p, c, duration, deadline) ==
    [op |-> op, p |-> p, c |-> c, duration |-> duration, deadline |-> deadline,
     now |-> 0,
     before |-> IF c = 0 THEN TestTimeProvider_new(sys_time) ELSE clocks[c],
     back |-> IF c = 0 THEN 0 ELSE tracked[c].back,
     result |-> {}]

\* No service: the task makes its calls directly.
NoService == [p |-> 0, step |-> 0, duration |-> 0, end_time |-> 0, executions |-> <<>>]

CanCall(t) == pc[t] = "idle" /\ budget > 0

Called(t) == budget' = budget - 1

IsVirtual(p) == p \in DOMAIN safe /\ safe[p].inner.kind = "test"
IsReal(p) == p \in DOMAIN safe /\ safe[p].inner.kind = "system"

\* The history of clock c when its state becomes `state`: a step that lowers
\* current_time is counted.
Moved(c, state) ==
    IF state.current_time < clocks[c].current_time THEN tracked[c].back + 1
                                                   ELSE tracked[c].back

NewTracked(start, held) ==
    [start |-> start, held |-> held, n |-> 0, sum |-> 0, back |-> 0, shifted |-> 0]

\* self.wait(duration) is entered on clock c: counted in the history.
WaitIssued(c, duration) ==
    tracked' = [tracked EXCEPT ![c].n = tracked[c].n + 1,
                               ![c].sum = tracked[c].sum + duration]

-----------------------------------------------------------------------------
(* TestTimeProvider::wait, reached through SafeTimeProvider::wait *)

CallWait(t, p, duration) ==
    /\ CanCall(t)
    /\ IsVirtual(p)
    /\ frame' = [frame EXCEPT ![t] = NewFrame("wait", p, safe[p].inner.clock, duration, 0)]
    /\ pc' = [pc EXCEPT ![t] = "wait_enter"]
    /\ WaitIssued(safe[p].inner.clock, duration)
    /\ Called(t)
    /\ UNCHANGED <<env, loaded, services, clocks, lock, provVars, sys_time>>

\* let mut state = self.state.write();
\* Another wait: the state is written without taking the lock first.
WaitLock_unguarded(t) ==
    /\ pc[t] = "wait_enter"
    /\ lock' = [lock EXCEPT ![frame[t].c] = t]
    /\ pc' = [pc EXCEPT ![t] = "wait_cs1"]
    /\ UNCHANGED <<env, loaded, services, clocks, provVars, sys_time, frame, budget, tracked>>

WaitLock(t) ==
    /\ pc[t] = "wait_enter"
    /\ lock[frame[t].c] = NoTask
    /\ lock' = [lock EXCEPT ![frame[t].c] = t]
    /\ pc' = [pc EXCEPT ![t] = "wait_cs1"]
    /\ UNCHANGED <<env, loaded, services, clocks, provVars, sys_time, frame, budget, tracked>>

\* state.current_time = state.current_time + duration;
\* Another wait for wait_until: the clock is put on the deadline itself, under
\* the lock, whatever happened since the clock was read.
WaitCurrentTime_to_deadline(t) ==
    /\ pc[t] = "wait_cs1"
    /\ LET c == frame[t].c
           state == IF frame[t].op = "wait_until"
                    THEN TestTimeProvider_set(clocks[c], frame[t].deadline)
                    ELSE wait_current_time(clocks[c], frame[t].duration)
       IN  /\ clocks' = [clocks EXCEPT ![c] = state]
           /\ tracked' = [tracked EXCEPT ![c].back = Moved(c, state)]
    /\ pc' = [pc EXCEPT ![t] = "wait_cs2"]
    /\ UNCHANGED <<env, loaded, services, lock, provVars, sys_time, frame, budget>>

WaitCurrentTime(t) ==
    /\ pc[t] = "wait_cs1"
    /\ LET c == frame[t].c
           state == wait_current_time(clocks[c], frame[t].duration)
       IN  /\ clocks' = [clocks EXCEPT ![c] = state]
           /\ tracked' = [tracked EXCEPT ![c].back = Moved(c, state)]
    /\ pc' = [pc EXCEPT ![t] = "wait_cs2"]
    /\ UNCHANGED <<env, loaded, services, lock, provVars, sys_time, frame, budget>>

\* state.total_waited = state.total_waited + duration;
\* Another wait: the second update takes the lock again, inside the scope of
\* the guard the wait already holds.
WaitTotalWaited_nested(t) ==
    /\ pc[t] = "wait_cs2"
    /\ lock[frame[t].c] = NoTask
    /\ clocks' = [clocks EXCEPT ![frame[t].c] =
                      wait_total_waited(clocks[frame[t].c], frame[t].duration)]
    /\ pc' = [pc EXCEPT ![t] = "wait_cs3"]
    /\ UNCHANGED <<env, loaded, services, lock, provVars, sys_time, frame, budget, tracked>>

WaitTotalWaited(t) ==
    /\ pc[t] = "wait_cs2"
    /\ clocks' = [clocks EXCEPT ![frame[t].c] =
                      wait_total_waited(clocks[frame[t].c], frame[t].duration)]
    /\ pc' = [pc EXCEPT ![t] = "wait_cs3"]
    /\ UNCHANGED <<env, loaded, services, lock, provVars, sys_time, frame, budget, tracked>>

\* state.wait_call_count += 1;  and the guard is dropped at the end of the block
\* Another wait: the write guard lives to the end of the function body, and so
\* across the yield.
WaitCallCount_guard_kept(t) ==
    /\ pc[t] = "wait_cs3"
    /\ clocks' = [clocks EXCEPT ![frame[t].c] = wait_wait_call_count(clocks[frame[t].c])]
    /\ pc' = [pc EXCEPT ![t] = "wait_yield"]
    /\ UNCHANGED <<env, loaded, services, lock, provVars, sys_time, frame, budget, tracked>>

WaitCallCount(t) ==
    /\ pc[t] = "wait_cs3"
    /\ clocks' = [clocks EXCEPT ![frame[t].c] = wait_wait_call_count(clocks[frame[t].c])]
    /\ lock' = [lock EXCEPT ![frame[t].c] = NoTask]
    /\ pc' = [pc EXCEPT ![t] = "wait_yield"]
    /\ UNCHANGED <<env, loaded, services, provVars, sys_time, frame, budget, tracked>>

\* A variant of the step below: a conditional wait, which returns only once
\* another task has moved the clock with advance or set.
WaitYield_until_moved(t) ==
    /\ pc[t] = "wait_yield"
    /\ \E u \in Tasks \ {t} : frame[u].op \in {"advance", "set"}
    /\ pc' = [pc EXCEPT ![t] = "returned"]
    /\ UNCHANGED <<env, loaded, services, clocks, lock, provVars, sys_time, frame, budget, tracked>>

\* tokio::task::yield_now().await: the task is rescheduled and wait returns
\* (and with it wait_until, when wait was called from there).
WaitYield(t) ==
    /\ pc[t] = "wait_yield"
    /\ pc' = [pc EXCEPT ![t] = "returned"]
    /\ UNCHANGED <<env, loaded, services, clocks, lock, provVars, sys_time, frame, budget, tracked>>

\* The caller reads now() after the call has returned (let _ = p.now();): the
\* value is TestTimeProvider_now(clocks[frame[t].c]) of the state the step is
\* taken in, and the call's frame is gone.
ReadNow(t) ==
    /\ pc[t] = "returned"
    /\ frame[t].c # 0
    /\ lock[frame[t].c] = NoTask
    /\ frame' = [frame EXCEPT ![t] = NoFrame]
    /\ pc' = [pc EXCEPT ![t] = "idle"]
    /\ UNCHANGED <<env, loaded, services, clocks, lock, provVars, sys_time, budget, tracked>>

-----------------------------------------------------------------------------
(* TestTimeProvider::wait_until, reached through SafeTimeProvider::wait_until *)

CallWaitUntil(t, p, deadline) ==
    /\ CanCall(t)
    /\ IsVirtual(p)
    /\ frame' = [frame EXCEPT ![t] =
                    NewFrame("wait_until", p, safe[p].inner.clock, 0, deadline)]
    /\ pc' = [pc EXCEPT ![t] = "wu_enter"]
    /\ Called(t)
    /\ UNCHANGED <<env, loaded, services, clocks, lock, provVars, sys_time, tracked>>

\* let now = self.now(); if deadline > now { self.wait(deadline - now).await }
WaitUntilNow(t) ==
    /\ pc[t] = "wu_enter"
    /\ lock[frame[t].c] = NoTask
    /\ LET now == TestTimeProvider_now(clocks[frame[t].c])
           due == TestTimeProvider_wait_until(frame[t].deadline, now)
       IN  IF due = {}
           THEN /\ frame' = [frame EXCEPT ![t].now = now]
                /\ pc' = [pc EXCEPT ![t] = "returned"]
                /\ UNCHANGED tracked
           ELSE \E duration \in due :
                /\ frame' = [frame EXCEPT ![t].now = now, ![t].duration = duration]
                /\ pc' = [pc EXCEPT ![t] = "wait_enter"]
                /\ WaitIssued(frame[t].c, duration)
    /\ UNCHANGED <<env, loaded, services, clocks, lock, provVars, sys_time, budget>>

-----------------------------------------------------------------------------
(* TimeControl: advance, set, reset_wait_tracking delegate to the provider.  *)
(* Each takes the write guard, assigns and drops the guard without a         *)
(* suspension point in between: one step, enabled when the lock is free.     *)

TimeControl_advance(t, control, duration) ==
    /\ CanCall(t)
    /\ control \in controls
    /\ lock[control.provider] = NoTask
    /\ frame' = [frame EXCEPT ![t] = NewFrame("advance", 0, control.provider, duration, 0)]
    /\ LET c == control.provider
           state == TestTimeProvider_advance(clocks[c], duration)
       IN  /\ clocks' = [clocks EXCEPT ![c] = state]
           /\ tracked' = [tracked EXCEPT ![c].back = Moved(c, state),
                                      ![c].shifted = @ + duration]
    /\ pc' = [pc EXCEPT ![t] = "returned"]
    /\ Called(t)
    /\ UNCHANGED <<env, loaded, services, lock, provVars, sys_time>>

\* Another set on the handle: the instant is taken relative to the instant the
\* clock is at, where the provider's own set takes it as it is.
TimeControl_set_relative(t, control, time) ==
    /\ CanCall(t)
    /\ control \in controls
    /\ lock[control.provider] = NoTask
    /\ frame' = [frame EXCEPT ![t] = NewFrame("set", 0, control.provider, 0, time)]
    /\ LET c == control.provider
           state == TestTimeProvider_advance(clocks[c], time)
       IN  /\ clocks' = [clocks EXCEPT ![c] = state]
           /\ tracked' = [tracked EXCEPT ![c].back = Moved(c, state),
                                      ![c].shifted = @ + time]
    /\ pc' = [pc EXCEPT ![t] = "returned"]
    /\ Called(t)
    /\ UNCHANGED <<env, loaded, services, lock, provVars, sys_time>>

TimeControl_set(t, control, time) ==
    /\ CanCall(t)
    /\ control \in controls
    /\ lock[control.provider] = NoTask
    /\ frame' = [frame EXCEPT ![t] = NewFrame("set", 0, control.provider, 0, time)]
    /\ LET c == control.provider
           state == TestTimeProvider_set(clocks[c], time)
       IN  /\ clocks' = [clocks EXCEPT ![c] = state]
           /\ tracked' = [tracked EXCEPT ![c].back = Moved(c, state),
                                      ![c].shifted = @ + (time - clocks[c].current_time)]
    /\ pc' = [pc EXCEPT ![t] = "returned"]
    /\ Called(t)
    /\ UNCHANGED <<env, loaded, services, lock, provVars, sys_time>>

TimeControl_reset_wait_tracking(t, control) ==
    /\ CanCall(t)
    /\ control \in controls
    /\ lock[control.provider] = NoTask
    /\ frame' = [frame EXCEPT ![t] = NewFrame("reset", 0, control.provider, 0, 0)]
    /\ clocks' = [clocks EXCEPT ![control.provider] =
                      TestTimeProvider_reset_wait_tracking(clocks[control.provider])]
    /\ tracked' = [tracked EXCEPT ![control.provider].n = 0,
                               ![control.provider].sum = 0,
                               ![control.provider].shifted =
                                   @ + clocks[control.provider].total_waited]
    /\ pc' = [pc EXCEPT ![t] = "returned"]
    /\ Called(t)
    /\ UNCHANGED <<env, loaded, services, lock, provVars, sys_time>>

-----------------------------------------------------------------------------
(* Specifications over one shared virtual clock *)

\* The state after
\*   let provider = SafeTimeProvider::new(TimeSource::Test(start));
\*   let control = provider.test_control().unwrap();
\* with every task holding a clone of the provider and the handle.
InitClock ==
    /\ \E start \in Starts :
          /\ clocks = <<TestTimeProvider_new(start)>>
          /\ safe = <<SafeTimeProvider_new(Test(start), 1)>>
          /\ tracked = <<NewTracked(start, FALSE)>>
    /\ lock = <<NoTask>>
    /\ origin = <<[how |-> "new", source |-> "Test", parent |-> 0]>>
    /\ controls = SafeTimeProvider_test_control(safe[1])
    /\ sys_time = 0
    /\ pc = [t \in Tasks |-> "idle"]
    /\ frame = [t \in Tasks |-> NoFrame]
    /\ services = [t \in Tasks |-> NoService]
    /\ env = NoEnv
    /\ loaded = NoLoaded

InitShared ==
    /\ InitClock
    /\ budget = MaxCalls

\* The steps inside a wait call and the read of now() that follows it.
WaitSteps(t) ==
    \/ WaitLock(t)
    \/ WaitCurrentTime(t)
    \/ WaitTotalWaited(t)
    \/ WaitCallCount(t)
    \/ WaitYield(t)
    \/ ReadNow(t)

\* A single caller: task 1 issues any operation, one after the other.
Caller == 1

NextSingle ==
    \/ \E p \in DOMAIN safe, duration \in Durations : CallWait(Caller, p, duration)
    \/ \E p \in DOMAIN safe, deadline \in Instants : CallWaitUntil(Caller, p, deadline)
    \/ WaitUntilNow(Caller)
    \/ WaitSteps(Caller)
    \/ \E control \in controls, duration \in Durations :
          TimeControl_advance(Caller, control, duration)
    \/ \E control \in controls, time \in Instants :
          TimeControl_set(Caller, control, time)
    \/ \E control \in controls : TimeControl_reset_wait_tracking(Caller, control)

SpecSingle == InitShared /\ [][NextSingle]_vars

\* Concurrent waits and nothing else: every task issues wait calls with
\* durations drawn from D.
NextWaits(D) ==
    \E t \in Tasks :
        \/ \E p \in DOMAIN safe, duration \in D : CallWait(t, p, duration)
        \/ WaitSteps(t)

SpecWaits == InitShared /\ [][NextWaits(NonNegDurations)]_vars

SpecWaitsAny == InitShared /\ [][NextWaits(Durations)]_vars

\* The same under fair scheduling: a task that can take the next step of its
\* wait (the lock is free, or it holds it, or it has been rescheduled after
\* the yield) eventually takes it.  The write guard is never held across a
\* suspension point, so a task at the lock is not kept from it for ever.
FairWaits == \A t \in Tasks : WF_vars(WaitSteps(t))

\* Whether a wait returns does not depend on how long it is: a backward, a
\* zero and a forward duration stand for all.
SignedDurations == {0 - 1, 0, 1}

SpecWaitsFair == InitShared /\ [][NextWaits(SignedDurations)]_vars /\ FairWaits

\* tests/provider_tests.rs, test_thread_safety: every task interleaves
\* advance and wait calls on the shared clock.
NextAdvanceWait ==
    \E t \in Tasks :
        \/ \E control \in controls, duration \in Durations :
              TimeControl_advance(t, control, duration)
        \/ \E p \in DOMAIN safe, duration \in Durations : CallWait(t, p, duration)
        \/ WaitSteps(t)

SpecAdvanceWait == InitShared /\ [][NextAdvanceWait]_vars

\* Another cancellation: dropping the suspended wait takes back what the wait
\* wrote.
Cancel_undone(t) ==
    /\ pc[t] = "wait_yield"
    /\ lock[frame[t].c] = NoTask
    /\ clocks' = [clocks EXCEPT ![frame[t].c] =
                     [current_time |-> @.current_time - frame[t].duration,
                      total_waited |-> @.total_waited - frame[t].duration,
                      wait_call_count |-> @.wait_call_count - 1]]
    /\ pc' = [pc EXCEPT ![t] = "cancelled"]
    /\ UNCHANGED <<env, loaded, services, lock, provVars, sys_time, frame, budget, tracked>>

\* The task running wait is aborted (examples/interest_calc.rs: handle.abort()).
\* An aborted task stops at the suspension point it is at; wait has one, its
\* yield.  The task never runs again.
Cancel(t) ==
    /\ pc[t] = "wait_yield"
    /\ pc' = [pc EXCEPT ![t] = "cancelled"]
    /\ UNCHANGED <<env, loaded, services, clocks, lock, provVars, sys_time, frame, budget,
                   tracked>>

\* Tasks wait on one shared virtual clock, and any of them may be aborted
\* while suspended.
NextCancel ==
    \E t \in Tasks :
        \/ \E p \in DOMAIN safe, duration \in Durations : CallWait(t, p, duration)
        \/ WaitSteps(t)
        \/ Cancel(t)

SpecCancel == InitShared /\ [][NextCancel]_vars

\* Any task issues any operation on the shared clock.
Next ==
    \E t \in Tasks :
        \/ \E p \in DOMAIN safe, duration \in Durations : CallWait(t, p, duration)
        \/ \E p \in DOMAIN safe, deadline \in Instants : CallWaitUntil(t, p, deadline)
        \/ WaitUntilNow(t)
        \/ WaitSteps(t)
        \/ \E control \in controls, duration \in Durations :
              TimeControl_advance(t, control, duration)
        \/ \E control \in controls, time \in Instants :
              TimeControl_set(t, control, time)
        \/ \E control \in controls : TimeControl_reset_wait_tracking(t, control)

Spec == InitShared /\ [][Next]_vars

\* tests/integration.rs, test_wait_until_with_concurrent_time_changes: a task
\* calls wait_until(target) with target > now() and then reads now(), while
\* the controller calls advance(duration) and then set(target).  The scenario
\* has three calls, in the order in which the test starts them; the waiter
\* stays at its read of now().
Controller == 2

InitControlled ==
    /\ InitClock
    /\ budget = 3

NextControlled ==
    \/ \E p \in DOMAIN safe, target \in Instants :
          /\ budget = 3
          /\ target > TestTimeProvider_now(clocks[safe[p].inner.clock])
          /\ CallWaitUntil(Caller, p, target)
    \/ WaitUntilNow(Caller)
    \/ WaitLock(Caller)
    \/ WaitCurrentTime(Caller)
    \/ WaitTotalWaited(Caller)
    \/ WaitCallCount(Caller)
    \/ WaitYield(Caller)
    \/ \E control \in controls, duration \in NonNegDurations :
          /\ budget = 2
          /\ TimeControl_advance(Controller, control, duration)
    \/ \E control \in controls :
          /\ budget = 1
          /\ frame[Caller].op = "wait_until"
          /\ TimeControl_set(Controller, control, frame[Caller].deadline)
    \/ ReadNow(Controller)

SpecControlled == InitControlled /\ [][NextControlled]_vars

-----------------------------------------------------------------------------
(* SystemTimeProvider, reached through a SafeTimeProvider over the real clock *)

\* The real clock moves on.
Tick ==
    /\ sys_time < MaxSysTime
    /\ sys_time' = sys_time + 1
    /\ UNCHANGED <<env, loaded, services, clocks, lock, provVars, pc, frame, budget, tracked>>

\* wait: tokio::time::sleep(std_duration) when to_std() is Ok, else nothing.
\* frame[t].deadline is the instant the sleep ends.
SystemWait(t, p, duration) ==
    /\ CanCall(t)
    /\ IsReal(p)
    /\ LET due == SystemTimeProvider_wait(duration)
       IN  IF due = {}
           THEN /\ frame' = [frame EXCEPT ![t] = NewFrame("wait", p, 0, duration, 0)]
                /\ pc' = [pc EXCEPT ![t] = "returned"]
           ELSE \E d \in due :
                /\ frame' = [frame EXCEPT ![t] =
                                NewFrame("wait", p, 0, duration, sys_time + d)]
                /\ pc' = [pc EXCEPT ![t] = "sys_sleep"]
    /\ Called(t)
    /\ UNCHANGED <<env, loaded, services, clocks, lock, provVars, sys_time, tracked>>

\* wait_until: let now = self.now(); if deadline > now { self.wait(deadline - now) }
SystemWaitUntil(t, p, deadline) ==
    /\ CanCall(t)
    /\ IsReal(p)
    /\ LET now == sys_time
           due == SystemTimeProvider_wait_until(deadline, now)
           slept == UNION {SystemTimeProvider_wait(d) : d \in due}
       IN  IF slept = {}
           THEN /\ frame' = [frame EXCEPT ![t] = NewFrame("wait_until", p, 0, 0, deadline)]
                /\ pc' = [pc EXCEPT ![t] = "returned"]
           ELSE \E d \in slept :
                /\ frame' = [frame EXCEPT ![t] =
                                [NewFrame("wait_until", p, 0, d, deadline)
                                    EXCEPT !.now = now]]
                /\ pc' = [pc EXCEPT ![t] = "sys_sleep"]
    /\ Called(t)
    /\ UNCHANGED <<env, loaded, services, clocks, lock, provVars, sys_time, tracked>>

\* The sleep ends once the real clock has reached its end.
\* The instant the sleep of a suspended call on the real clock ends: for
\* wait, the call time plus the interval slept (kept as the frame's deadline);
\* for wait_until, the now() it read plus the duration it computed.
WakeTime(f) ==
    IF f.op = "wait_until" THEN f.now + f.duration ELSE f.deadline

SystemWake(t) ==
    /\ pc[t] = "sys_sleep"
    /\ sys_time >= WakeTime(frame[t])
    /\ pc' = [pc EXCEPT ![t] = "returned"]
    /\ UNCHANGED <<env, loaded, services, clocks, lock, provVars, sys_time, frame, budget, tracked>>

\* The caller reads now() (Utc::now()) after the call has returned.
SystemReadNow(t) ==
    /\ pc[t] = "returned"
    /\ frame[t].c = 0
    /\ frame' = [frame EXCEPT ![t] = NoFrame]
    /\ pc' = [pc EXCEPT ![t] = "idle"]
    /\ UNCHANGED <<env, loaded, services, clocks, lock, provVars, sys_time, budget, tracked>>

\* tests/provider_tests.rs, test_system_provider_actually_waits: tasks wait on
\* a provider over the real clock while the real clock moves on.
InitSystem ==
    /\ clocks = <<>>
    /\ lock = <<>>
    /\ tracked = <<>>
    /\ safe = <<SafeTimeProvider_new(System, 0)>>
    /\ origin = <<[how |-> "new", source |-> "System", parent |-> 0]>>
    /\ controls = {}
    /\ sys_time = 0
    /\ pc = [t \in Tasks |-> "idle"]
    /\ frame = [t \in Tasks |-> NoFrame]
    /\ services = [t \in Tasks |-> NoService]
    /\ env = NoEnv
    /\ loaded = NoLoaded
    /\ budget = MaxCalls

NextSystem ==
    \/ Tick
    \/ \E t \in Tasks :
          \/ \E p \in DOMAIN safe, duration \in Durations : SystemWait(t, p, duration)
          \/ \E p \in DOMAIN safe, deadline \in Instants : SystemWaitUntil(t, p, deadline)
          \/ SystemWake(t)
          \/ SystemReadNow(t)

SpecSystem == InitSystem /\ [][NextSystem]_vars

-----------------------------------------------------------------------------
(* Construction of providers and handles *)

\* SafeTimeProvider::new(source); TestNow starts the clock at Utc::now().
New(source) ==
    /\ Len(safe) < MaxProviders
    /\ Len(clocks) < MaxProviders
    /\ safe' = Append(safe, SafeTimeProvider_new(source, Len(clocks) + 1))
    /\ origin' = Append(origin, [how |-> "new", source |-> source.kind, parent |-> 0])
    /\ IF source.kind = "System"
       THEN UNCHANGED <<clocks, lock, tracked>>
       ELSE LET start == IF source.kind = "TestNow" THEN sys_time ELSE source.start
            IN  /\ clocks' = Append(clocks, TestTimeProvider_new(start))
                /\ lock' = Append(lock, NoTask)
                /\ tracked' = Append(tracked, NewTracked(start, FALSE))
    /\ UNCHANGED <<env, loaded, services, controls, sys_time, pc, frame, budget>>

\* let provider = Arc::new(TestTimeProvider::new(start));
\* SafeTimeProvider::new_from_test_provider(provider.clone())
\* The caller keeps its Arc<TestTimeProvider>.
NewFromTestProvider(start) ==
    /\ Len(safe) < MaxProviders
    /\ Len(clocks) < MaxProviders
    /\ clocks' = Append(clocks, TestTimeProvider_new(start))
    /\ lock' = Append(lock, NoTask)
    /\ tracked' = Append(tracked, NewTracked(start, TRUE))
    /\ safe' = Append(safe, SafeTimeProvider_new_from_test_provider(Len(clocks) + 1))
    /\ origin' = Append(origin, [how |-> "new_from_test_provider",
                                 source |-> "TestTimeProvider", parent |-> 0])
    /\ UNCHANGED <<env, loaded, services, controls, sys_time, pc, frame, budget>>

\* provider.clone()
Clone(p) ==
    /\ Len(safe) < MaxProviders
    /\ p \in DOMAIN safe
    /\ safe' = Append(safe, SafeTimeProvider_clone(safe[p]))
    /\ origin' = Append(origin, [how |-> "clone", source |-> origin[p].source,
                                 parent |-> p])
    /\ UNCHANGED <<env, loaded, services, clocks, lock, controls, sys_time, pc, frame, budget, tracked>>

\* provider.test_control(): the caller keeps the handle, if there is one.
TestControl(t, p) ==
    /\ CanCall(t)
    /\ p \in DOMAIN safe
    /\ LET result == SafeTimeProvider_test_control(safe[p])
       IN  /\ frame' = [frame EXCEPT ![t] =
                           [NewFrame("test_control", p, 0, 0, 0) EXCEPT !.result = result]]
           /\ controls' = controls \cup result
    /\ Called(t)
    /\ UNCHANGED <<env, loaded, services, clocks, lock, safe, origin, sys_time, pc, tracked>>

\* Nothing constructed yet; the caller is the only task and there is no
\* service.
InitGate ==
    /\ clocks = <<>>
    /\ lock = <<>>
    /\ tracked = <<>>
    /\ safe = <<>>
    /\ origin = <<>>
    /\ controls = {}
    /\ sys_time = 0
    /\ pc = [t \in {Caller} |-> "idle"]
    /\ frame = [t \in {Caller} |-> NoFrame]
    /\ services = <<>>
    /\ env = NoEnv
    /\ loaded = NoLoaded
    /\ budget = MaxCalls

\* tests/control_tests.rs, the environment tests: the test sets or removes the
\* two variables, loads the selector from the environment and constructs a
\* provider from it.
SetVar(name, variable) ==
    /\ variable.state # "unset"
    /\ env[name] # variable
    /\ env' = [env EXCEPT ![name] = variable]
    /\ UNCHANGED <<clocks, lock, provVars, sys_time, pc, frame, budget, tracked,
                   services, loaded>>

RemoveVar(name) ==
    /\ env[name].state # "unset"
    /\ env' = [env EXCEPT ![name] = NoEnv[name]]
    /\ UNCHANGED <<clocks, lock, provVars, sys_time, pc, frame, budget, tracked,
                   services, loaded>>

FromEnv ==
    /\ loaded' = [read |-> TRUE, selector |-> TimeSource_from_env(env), env |-> env]
    /\ loaded' # loaded
    /\ UNCHANGED <<clocks, lock, provVars, sys_time, pc, frame, budget, tracked,
                   services, env>>

NewFromEnv ==
    /\ loaded.read
    /\ New(loaded.selector)

InitEnv ==
    /\ clocks = <<>>
    /\ lock = <<>>
    /\ tracked = <<>>
    /\ safe = <<>>
    /\ origin = <<>>
    /\ controls = {}
    /\ sys_time = 0
    /\ pc = [t \in Tasks |-> "idle"]
    /\ frame = [t \in Tasks |-> NoFrame]
    /\ services = [t \in Tasks |-> NoService]
    /\ budget = MaxCalls
    /\ env \in [TIME_SOURCE : SourceVars, TIME_START : StartVars]
    /\ loaded = NoLoaded

NextEnv ==
    \/ \E variable \in SourceVars : SetVar("TIME_SOURCE", variable)
    \/ \E variable \in StartVars : SetVar("TIME_START", variable)
    \/ \E name \in {"TIME_SOURCE", "TIME_START"} : RemoveVar(name)
    \/ FromEnv
    \/ NewFromEnv
    \/ Tick

SpecEnv == InitEnv /\ [][NextEnv]_vars

\* One task constructs providers, clones them, asks for control handles and
\* uses whatever it has got, with a backward and a forward duration and two
\* instants as arguments.
GateDurations == {0 - 1, 1}
GateInstants == {0, 1}

NextGate ==
    \/ \E source \in TimeSources : New(source)
    \/ \E start \in Starts : NewFromTestProvider(start)
    \/ \E p \in DOMAIN safe : Clone(p)
    \/ \E p \in DOMAIN safe : TestControl(Caller, p)
    \/ \E p \in DOMAIN safe, duration \in GateDurations : CallWait(Caller, p, duration)
    \/ \E p \in DOMAIN safe, deadline \in GateInstants : CallWaitUntil(Caller, p, deadline)
    \/ WaitUntilNow(Caller)
    \/ WaitSteps(Caller)
    \/ \E p \in DOMAIN safe, duration \in GateDurations : SystemWait(Caller, p, duration)
    \/ \E p \in DOMAIN safe, deadline \in GateInstants : SystemWaitUntil(Caller, p, deadline)
    \/ SystemWake(Caller)
    \/ SystemReadNow(Caller)
    \/ Tick
    \/ \E control \in controls, duration \in GateDurations :
          TimeControl_advance(Caller, control, duration)
    \/ \E control \in controls, time \in GateInstants :
          TimeControl_set(Caller, control, time)
    \/ \E control \in controls : TimeControl_reset_wait_tracking(Caller, control)

SpecGate == InitGate /\ [][NextGate]_vars

\* tests/provider_tests.rs, test_thread_safety: tasks advance one shared
\* virtual clock and wait on it, with durations from D; set and
\* reset_wait_tracking are never called.
NextNoSet(D) ==
    \E t \in Tasks :
        \/ \E p \in DOMAIN safe, duration \in D : CallWait(t, p, duration)
        \/ \E p \in DOMAIN safe, deadline \in Instants : CallWaitUntil(t, p, deadline)
        \/ WaitUntilNow(t)
        \/ WaitSteps(t)
        \/ \E control \in controls, duration \in D :
              TimeControl_advance(t, control, duration)

SpecNoSet == InitShared /\ [][NextNoSet(Durations)]_vars

SpecForward == InitShared /\ [][NextNoSet(NonNegDurations)]_vars

\* Another total_waited / wait_call_count: the statistics are handed over,
\* and tracking starts again.
TimeControl_read_and_reset(t, control, what) ==
    /\ CanCall(t)
    /\ control \in controls
    /\ lock[control.provider] = NoTask
    /\ frame' = [frame EXCEPT ![t] =
                    [NewFrame(what, 0, control.provider, 0, 0) EXCEPT
                        !.result = IF what = "total_waited"
                                   THEN {TimeControl_total_waited(control)}
                                   ELSE {TimeControl_wait_call_count(control)}]]
    /\ clocks' = [clocks EXCEPT ![control.provider] =
                      TestTimeProvider_reset_wait_tracking(clocks[control.provider])]
    /\ pc' = [pc EXCEPT ![t] = "returned"]
    /\ Called(t)
    /\ UNCHANGED <<env, loaded, services, lock, provVars, sys_time, tracked>>

\* SafeTimeProvider::now and SafeTimeProvider::is_test_mode called by a task
\* on its own (now takes the read lock of a virtual clock; is_test_mode goes
\* to is_test of the inner provider and takes no lock).
SafeTimeProvider_read(t, p, what) ==
    /\ CanCall(t)
    /\ p \in DOMAIN safe
    /\ (what = "now" /\ IsVirtual(p)) => lock[safe[p].inner.clock] = NoTask
    /\ frame' = [frame EXCEPT ![t] =
                    [NewFrame(what, p, safe[p].inner.clock, 0, 0) EXCEPT
                        !.result = IF what = "now"
                                   THEN {SafeTimeProvider_now(safe[p])}
                                   ELSE {SafeTimeProvider_is_test_mode(safe[p])}]]
    /\ pc' = [pc EXCEPT ![t] = "returned"]
    /\ Called(t)
    /\ UNCHANGED <<env, loaded, services, clocks, lock, provVars, sys_time, tracked>>

\* TimeControl::total_waited and TimeControl::wait_call_count called by a
\* task: one read of the state under the lock.
TimeControl_read(t, control, what) ==
    /\ CanCall(t)
    /\ control \in controls
    /\ lock[control.provider] = NoTask
    /\ frame' = [frame EXCEPT ![t] =
                    [NewFrame(what, 0, control.provider, 0, 0) EXCEPT
                        !.result = IF what = "total_waited"
                                   THEN {TimeControl_total_waited(control)}
                                   ELSE {TimeControl_wait_call_count(control)}]]
    /\ pc' = [pc EXCEPT ![t] = "returned"]
    /\ Called(t)
    /\ UNCHANGED <<env, loaded, services, clocks, lock, provVars, sys_time, tracked>>

\* tests/provider_tests.rs, test_thread_safety: tasks wait on one shared
\* virtual clock while others read it and move it through the control handle.
NextAccess ==
    \E t \in Tasks :
        \/ \E p \in DOMAIN safe, duration \in GateDurations : CallWait(t, p, duration)
        \/ WaitSteps(t)
        \/ \E control \in controls, duration \in GateDurations :
              TimeControl_advance(t, control, duration)
        \/ \E control \in controls, time \in GateInstants :
              TimeControl_set(t, control, time)
        \/ \E control \in controls : TimeControl_reset_wait_tracking(t, control)
        \/ \E control \in controls, what \in {"total_waited", "wait_call_count"} :
              TimeControl_read(t, control, what)

SpecAccess == InitShared /\ [][NextAccess]_vars

\* Tasks perform any mix of operations on two virtual clocks, through the
\* providers and their control handles, under fair scheduling: a task that
\* can take the next step of the call it is in eventually takes it.
InitMix ==
    /\ clocks = <<TestTimeProvider_new(0), TestTimeProvider_new(0)>>
    /\ safe = <<SafeTimeProvider_new(Test(0), 1), SafeTimeProvider_new(Test(0), 2)>>
    /\ tracked = <<NewTracked(0, FALSE), NewTracked(0, FALSE)>>
    /\ lock = <<NoTask, NoTask>>
    /\ origin = [p \in {1, 2} |-> [how |-> "new", source |-> "Test", parent |-> 0]]
    /\ controls = SafeTimeProvider_test_control(safe[1])
                      \cup SafeTimeProvider_test_control(safe[2])
    /\ sys_time = 0
    /\ pc = [t \in Tasks |-> "idle"]
    /\ frame = [t \in Tasks |-> NoFrame]
    /\ services = [t \in Tasks |-> NoService]
    /\ env = NoEnv
    /\ loaded = NoLoaded
    /\ budget = MaxCalls

MixDurations == {1}
MixInstants == {1}

NextMix ==
    \E t \in Tasks :
        \/ \E p \in DOMAIN safe, duration \in MixDurations : CallWait(t, p, duration)
        \/ \E p \in DOMAIN safe, deadline \in MixInstants : CallWaitUntil(t, p, deadline)
        \/ WaitUntilNow(t)
        \/ WaitSteps(t)
        \/ \E control \in controls, duration \in MixDurations :
              TimeControl_advance(t, control, duration)
        \/ \E control \in controls, time \in MixInstants :
              TimeControl_set(t, control, time)
        \/ \E control \in controls : TimeControl_reset_wait_tracking(t, control)
        \/ \E control \in controls, what \in {"total_waited", "wait_call_count"} :
              TimeControl_read(t, control, what)

FairMix == \A t \in Tasks : WF_vars(WaitSteps(t) \/ WaitUntilNow(t))

SpecMixFair == InitMix /\ [][NextMix]_vars /\ FairMix

\* TestTimeProvider::advance, set, wait_call_count and now called directly on
\* the Arc<TestTimeProvider> the caller holds for clock c.
DirectAdvance(t, c, duration) ==
    /\ CanCall(t)
    /\ tracked[c].held
    /\ lock[c] = NoTask
    /\ frame' = [frame EXCEPT ![t] = NewFrame("direct_advance", 0, c, duration, 0)]
    /\ LET state == TestTimeProvider_advance(clocks[c], duration)
       IN  /\ clocks' = [clocks EXCEPT ![c] = state]
           /\ tracked' = [tracked EXCEPT ![c].back = Moved(c, state),
                                      ![c].shifted = @ + duration]
    /\ pc' = [pc EXCEPT ![t] = "returned"]
    /\ Called(t)
    /\ UNCHANGED <<env, loaded, services, lock, provVars, sys_time>>

DirectSet(t, c, time) ==
    /\ CanCall(t)
    /\ tracked[c].held
    /\ lock[c] = NoTask
    /\ frame' = [frame EXCEPT ![t] = NewFrame("direct_set", 0, c, 0, time)]
    /\ LET state == TestTimeProvider_set(clocks[c], time)
       IN  /\ clocks' = [clocks EXCEPT ![c] = state]
           /\ tracked' = [tracked EXCEPT ![c].back = Moved(c, state),
                                      ![c].shifted = @ + (time - clocks[c].current_time)]
    /\ pc' = [pc EXCEPT ![t] = "returned"]
    /\ Called(t)
    /\ UNCHANGED <<env, loaded, services, lock, provVars, sys_time>>

DirectRead(t, c, what) ==
    /\ CanCall(t)
    /\ tracked[c].held
    /\ lock[c] = NoTask
    /\ frame' = [frame EXCEPT ![t] =
                    [NewFrame(what, 0, c, 0, 0) EXCEPT
                        !.result = IF what = "direct_now"
                                   THEN {TestTimeProvider_now(clocks[c])}
                                   ELSE {TestTimeProvider_wait_call_count(clocks[c])}]]
    /\ pc' = [pc EXCEPT ![t] = "returned"]
    /\ Called(t)
    /\ UNCHANGED <<env, loaded, services, clocks, lock, provVars, sys_time, tracked>>

\* The caller has made a test provider and keeps it (clock Given), has
\* wrapped it with new_from_test_provider (provider Gated), and has another
\* provider made by new besides.  It uses the test provider directly and
\* through the gated provider and its control handle.
Given == 2
Gated == 2

InitDirect ==
    /\ \E start \in Starts :
          /\ clocks = <<TestTimeProvider_new(0), TestTimeProvider_new(start)>>
          /\ tracked = <<NewTracked(0, FALSE), NewTracked(start, TRUE)>>
    /\ safe = <<SafeTimeProvider_new(Test(0), 1),
                SafeTimeProvider_new_from_test_provider(Given)>>
    /\ lock = <<NoTask, NoTask>>
    /\ origin = <<[how |-> "new", source |-> "Test", parent |-> 0],
                  [how |-> "new_from_test_provider", source |-> "TestTimeProvider",
                   parent |-> 0]>>
    /\ controls = {}
    /\ sys_time = 0
    /\ pc = [t \in Tasks |-> "idle"]
    /\ frame = [t \in Tasks |-> NoFrame]
    /\ services = [t \in Tasks |-> NoService]
    /\ env = NoEnv
    /\ loaded = NoLoaded
    /\ budget = MaxCalls

NextDirect ==
    \/ \E duration \in GateDurations : DirectAdvance(Caller, Given, duration)
    \/ \E time \in GateInstants : DirectSet(Caller, Given, time)
    \/ \E what \in {"direct_now", "direct_wait_call_count"} :
          DirectRead(Caller, Given, what)
    \/ TestControl(Caller, Gated)
    \/ \E duration \in GateDurations : CallWait(Caller, Gated, duration)
    \/ \E deadline \in GateInstants : CallWaitUntil(Caller, Gated, deadline)
    \/ WaitUntilNow(Caller)
    \/ WaitSteps(Caller)
    \/ \E what \in {"now", "is_test_mode"} : SafeTimeProvider_read(Caller, Gated, what)
    \/ \E control \in controls, duration \in GateDurations :
          TimeControl_advance(Caller, control, duration)

SpecDirect == InitDirect /\ [][NextDirect]_vars

\* tests/control_tests.rs: the caller has a provider over a virtual clock and
\* its control handle; further providers are constructed one after another, from
\* any selector, from a test provider and by cloning, while the caller
\* already uses the ones it has: it waits on them, advances them through
\* their control handles and reads them.
NextConstruct ==
    \/ \E source \in TimeSources : New(source)
    \/ \E start \in Starts : NewFromTestProvider(start)
    \/ \E p \in DOMAIN safe : Clone(p)
    \/ \E p \in DOMAIN safe : TestControl(Caller, p)
    \/ \E p \in DOMAIN safe, duration \in GateDurations : CallWait(Caller, p, duration)
    \/ WaitSteps(Caller)
    \/ \E control \in controls, duration \in GateDurations :
          TimeControl_advance(Caller, control, duration)
    \/ \E p \in {q \in DOMAIN safe : IsVirtual(q)}, what \in {"now", "is_test_mode"} :
          SafeTimeProvider_read(Caller, p, what)
    \/ \E control \in controls, what \in {"total_waited", "wait_call_count"} :
          TimeControl_read(Caller, control, what)
    \/ Tick

SpecConstruct == InitShared /\ [][NextConstruct]_vars

\* tests/integration.rs, test_wait_until_with_concurrent_time_changes: one task
\* calls wait_until while the other tasks wait on the same clock and move it
\* through the control handle.
NextUntil ==
    \/ \E p \in DOMAIN safe, deadline \in Instants : CallWaitUntil(Caller, p, deadline)
    \/ WaitUntilNow(Caller)
    \/ \E t \in Tasks : WaitSteps(t)
    \/ \E t \in Tasks \ {Caller} :
          \/ \E p \in DOMAIN safe, duration \in GateDurations : CallWait(t, p, duration)
          \/ \E control \in controls, duration \in GateDurations :
                TimeControl_advance(t, control, duration)
          \/ \E control \in controls, time \in GateInstants :
                TimeControl_set(t, control, time)

SpecUntil == InitShared /\ [][NextUntil]_vars

\* tests/control_tests.rs, test_multiple_controls_share_state, beside a second
\* provider with a clock of its own: the caller asks either provider for
\* handles and uses the providers and the handles it has got.
InitHandles ==
    /\ \E start \in Starts :
          /\ clocks = <<TestTimeProvider_new(start), TestTimeProvider_new(0)>>
          /\ safe = <<SafeTimeProvider_new(Test(start), 1), SafeTimeProvider_new(Test(0), 2)>>
          /\ tracked = <<NewTracked(start, FALSE), NewTracked(0, FALSE)>>
    /\ lock = <<NoTask, NoTask>>
    /\ origin = [p \in {1, 2} |-> [how |-> "new", source |-> "Test", parent |-> 0]]
    /\ controls = {}
    /\ sys_time = 0
    /\ pc = [t \in Tasks |-> "idle"]
    /\ frame = [t \in Tasks |-> NoFrame]
    /\ services = [t \in Tasks |-> NoService]
    /\ env = NoEnv
    /\ loaded = NoLoaded
    /\ budget = MaxCalls

NextHandles ==
    \/ \E p \in DOMAIN safe : TestControl(Caller, p)
    \/ \E p \in DOMAIN safe, duration \in GateDurations : CallWait(Caller, p, duration)
    \/ \E p \in DOMAIN safe, deadline \in GateInstants : CallWaitUntil(Caller, p, deadline)
    \/ WaitUntilNow(Caller)
    \/ WaitSteps(Caller)
    \/ \E control \in controls, duration \in GateDurations :
          TimeControl_advance(Caller, control, duration)
    \/ \E control \in controls, time \in GateInstants :
          TimeControl_set(Caller, control, time)
    \/ \E control \in controls : TimeControl_reset_wait_tracking(Caller, control)

SpecHandles == InitHandles /\ [][NextHandles]_vars

-----------------------------------------------------------------------------
(* tests/integration.rs: ScheduledService and its loop                       *)
(*   let end_time = now() + duration;                                        *)
(*   while now() < end_time { executions.push(now()); wait(step).await; }    *)

\* The service of a task: provider p, a wait of `step` per round, running for
\* `duration`.
NewService(p, step, duration) ==
    [p |-> p, step |-> step, duration |-> duration, end_time |-> 0,
     executions |-> <<>>]

ServiceClock(t) == safe[services[t].p].inner.clock

\* let end_time = self.time_provider.now() + duration;
ServiceStart(t) ==
    /\ pc[t] = "svc_start"
    /\ lock[ServiceClock(t)] = NoTask
    /\ services' = [services EXCEPT ![t].end_time =
                        SafeTimeProvider_now(safe[services[t].p]) + services[t].duration]
    /\ pc' = [pc EXCEPT ![t] = "svc_check"]
    /\ UNCHANGED <<env, loaded, clocks, lock, provVars, sys_time, frame, budget, tracked>>

\* while self.time_provider.now() < end_time: at the start and each time the
\* wait of the round before has returned.
ServiceCheck(t) ==
    /\ services[t].p # 0
    /\ pc[t] \in {"svc_check", "returned"}
    /\ lock[ServiceClock(t)] = NoTask
    /\ pc' = [pc EXCEPT ![t] =
                 IF SafeTimeProvider_now(safe[services[t].p]) < services[t].end_time
                 THEN "svc_record" ELSE "svc_done"]
    /\ frame' = [frame EXCEPT ![t] = NoFrame]
    /\ UNCHANGED <<env, loaded, services, clocks, lock, provVars, sys_time, budget, tracked>>

\* let now = self.time_provider.now(); self.executions.lock().await.push(now);
ServiceRecord(t) ==
    /\ pc[t] = "svc_record"
    /\ lock[ServiceClock(t)] = NoTask
    /\ services' = [services EXCEPT ![t].executions =
                        Append(@, SafeTimeProvider_now(safe[services[t].p]))]
    /\ pc' = [pc EXCEPT ![t] = "svc_wait"]
    /\ UNCHANGED <<env, loaded, clocks, lock, provVars, sys_time, frame, budget, tracked>>

\* self.time_provider.wait(step).await
ServiceWait(t) ==
    /\ pc[t] = "svc_wait"
    /\ frame' = [frame EXCEPT ![t] =
                    NewFrame("wait", services[t].p, ServiceClock(t), services[t].step, 0)]
    /\ pc' = [pc EXCEPT ![t] = "wait_enter"]
    /\ WaitIssued(ServiceClock(t), services[t].step)
    /\ UNCHANGED <<env, loaded, services, clocks, lock, provVars, sys_time, budget>>

\* The steps of a service task, the steps inside its wait included.
ServiceSteps(t) ==
    \/ ServiceStart(t)
    \/ ServiceCheck(t)
    \/ ServiceRecord(t)
    \/ ServiceWait(t)
    \/ WaitLock(t)
    \/ WaitCurrentTime(t)
    \/ WaitTotalWaited(t)
    \/ WaitCallCount(t)
    \/ WaitYield(t)

\* test_service_with_test_time: the service runs every hour for ServiceHours
\* hours on the shared clock while the controller calls advance(1h)
\* AdvanceCount times (24 and 24 in the test, scaled down here).  The sleeps
\* of the test are real time and order nothing.
HourStep == 1

InitHourly ==
    /\ \E start \in Starts :
          /\ clocks = <<TestTimeProvider_new(start)>>
          /\ safe = <<SafeTimeProvider_new(Test(start), 1)>>
          /\ tracked = <<NewTracked(start, FALSE)>>
    /\ lock = <<NoTask>>
    /\ origin = <<[how |-> "new", source |-> "Test", parent |-> 0]>>
    /\ controls = SafeTimeProvider_test_control(safe[1])
    /\ sys_time = 0
    /\ pc = [t \in Tasks |-> IF t = Caller THEN "svc_start" ELSE "idle"]
    /\ frame = [t \in Tasks |-> NoFrame]
    /\ services = [t \in Tasks |->
                      IF t = Caller THEN NewService(1, HourStep, ServiceHours)
                                    ELSE NoService]
    /\ budget = AdvanceCount
    /\ env = NoEnv
    /\ loaded = NoLoaded

NextHourly ==
    \/ ServiceSteps(Caller)
    \/ \E control \in controls : TimeControl_advance(Controller, control, HourStep)
    \/ ReadNow(Controller)

SpecHourly == InitHourly /\ [][NextHourly]_vars

\* test_concurrent_services_with_test_time: three services, each on a
\* provider of its own, with rounds of 1h, 2h and 3h over 6 hours.  A fourth
\* task makes one call of any operation on a fourth provider of its own.
RoundSteps == <<1, 2, 3>>
RunHours == 6
Services == DOMAIN RoundSteps
Operator == Len(RoundSteps) + 1

InitServices ==
    /\ clocks = [c \in 1..Operator |-> TestTimeProvider_new(0)]
    /\ safe = [p \in 1..Operator |-> SafeTimeProvider_new(Test(0), p)]
    /\ tracked = [c \in 1..Operator |-> NewTracked(0, FALSE)]
    /\ lock = [c \in 1..Operator |-> NoTask]
    /\ origin = [p \in 1..Operator |-> [how |-> "new", source |-> "Test", parent |-> 0]]
    /\ controls = SafeTimeProvider_test_control(safe[Operator])
    /\ sys_time = 0
    /\ pc = [t \in 1..Operator |-> IF t \in Services THEN "svc_start" ELSE "idle"]
    /\ frame = [t \in 1..Operator |-> NoFrame]
    /\ services = [t \in 1..Operator |->
                      IF t \in Services THEN NewService(t, RoundSteps[t], RunHours)
                                        ELSE NoService]
    /\ budget = 1
    /\ env = NoEnv
    /\ loaded = NoLoaded

NextServices ==
    \/ \E t \in Services : ServiceSteps(t)
    \/ \E duration \in GateDurations : CallWait(Operator, Operator, duration)
    \/ \E deadline \in GateInstants : CallWaitUntil(Operator, Operator, deadline)
    \/ WaitUntilNow(Operator)
    \/ WaitSteps(Operator)
    \/ \E control \in controls, duration \in GateDurations :
          TimeControl_advance(Operator, control, duration)
    \/ \E control \in controls, time \in GateInstants :
          TimeControl_set(Operator, control, time)
    \/ \E control \in controls : TimeControl_reset_wait_tracking(Operator, control)

SpecServices == InitServices /\ [][NextServices]_vars

-----------------------------------------------------------------------------
(* Properties *)

\* No task is inside a call on the shared clock.
Quiescent == \A t \in Tasks : pc[t] \in {"idle", "returned"}

\* Task t's call of `op` has returned and t is about to read now(); the read
\* is possible (no writer holds the lock).
Returned(t, op) ==
    /\ pc[t] = "returned"
    /\ frame[t].op = op
    /\ lock[frame[t].c] = NoTask

\* C1: when tasks call wait concurrently on one shared virtual clock and
\* nothing else mutates it, then whenever all the calls issued so far have
\* returned (in particular at the end), now() is the initial now() plus the
\* sum of the durations of the calls, whatever the interleaving was.
C1_ConcurrentWaitsAddUp ==
    Quiescent =>
        TestTimeProvider_now(clocks[1]) = tracked[1].start + tracked[1].sum

\* Both tasks have called wait at the same clock state, with non-zero
\* durations, and both calls have returned.
C1_Witness ==
    /\ \A t \in {Caller, Controller} :
          /\ pc[t] = "returned"
          /\ frame[t].op = "wait"
          /\ frame[t].duration # 0
    /\ frame[Caller].before = frame[Controller].before
    /\ tracked[1].n = 2

\* C2: with concurrent waits of non-negative durations and nothing else, the
\* now() a task reads after its own wait(d) has returned is at or past the
\* now() that held when it called wait, plus d.
C2_PostWaitAtLeastOwn ==
    \A t \in Tasks :
        Returned(t, "wait") =>
            TestTimeProvider_now(clocks[frame[t].c])
                >= frame[t].before.current_time + frame[t].duration

\* A task's wait has returned and, another wait having been applied in
\* between, the clock is strictly past its own start plus its own duration.
C2_Witness ==
    \E t \in Tasks :
        /\ Returned(t, "wait")
        /\ frame[t].duration > 0
        /\ TestTimeProvider_now(clocks[frame[t].c])
              > frame[t].before.current_time + frame[t].duration

\* C3: for a single caller and a non-negative duration d, now() read after
\* wait(d) has returned is now() before the call plus d.
C3_SingleWaitAdvancesByD ==
    (Returned(Caller, "wait") /\ frame[Caller].duration >= 0) =>
        TestTimeProvider_now(clocks[frame[Caller].c])
            = frame[Caller].before.current_time + frame[Caller].duration

\* A wait of a positive duration has returned on a clock that earlier calls
\* had already moved away from its start.
C3_Witness ==
    /\ Returned(Caller, "wait")
    /\ frame[Caller].duration > 0
    /\ frame[Caller].before.current_time # tracked[1].start

\* C4: after N sequential wait calls of durations d_1..d_N on a fresh or
\* freshly reset clock, total_waited is the sum of the d_i and
\* wait_call_count is N.
C4_SequentialWaitsTracked ==
    (pc[Caller] \in {"idle", "returned"}) =>
        /\ TestTimeProvider_total_waited(clocks[1]) = tracked[1].sum
        /\ TestTimeProvider_wait_call_count(clocks[1]) = tracked[1].n

\* Two waits have returned, with a non-zero sum.
C4_Witness ==
    /\ Returned(Caller, "wait")
    /\ tracked[1].n >= 2
    /\ tracked[1].sum > frame[Caller].duration
    /\ frame[Caller].duration > 0

\* C7: for a single caller, wait_until(deadline) with deadline <= now()
\* changes nothing: current instant, total_waited and wait_call_count are
\* after the call what they were before it.
C7_PastDeadlineNoOp ==
    (/\ Returned(Caller, "wait_until")
     /\ frame[Caller].deadline <= frame[Caller].before.current_time) =>
        clocks[frame[Caller].c] = frame[Caller].before

\* wait_until has returned from a deadline equal to now().
C7_Witness ==
    /\ Returned(Caller, "wait_until")
    /\ frame[Caller].deadline = frame[Caller].before.current_time

\* C10: for a single caller, wait_until(deadline) with deadline > now()
\* leaves now() equal to deadline, increments wait_call_count by one and adds
\* deadline - previous now() to total_waited.
C10_FutureDeadlineReached ==
    (/\ Returned(Caller, "wait_until")
     /\ frame[Caller].deadline > frame[Caller].before.current_time) =>
        LET state == clocks[frame[Caller].c]
            before == frame[Caller].before
        IN  /\ TestTimeProvider_now(state) = frame[Caller].deadline
            /\ TestTimeProvider_wait_call_count(state) = before.wait_call_count + 1
            /\ TestTimeProvider_total_waited(state)
                  = before.total_waited + (frame[Caller].deadline - before.current_time)

\* wait_until has returned from a future deadline, on a clock that is not at
\* instant 0.
C10_Witness ==
    /\ Returned(Caller, "wait_until")
    /\ frame[Caller].deadline > frame[Caller].before.current_time
    /\ frame[Caller].before.current_time # 0

\* Task t's call of `op` returns in this step.
ReturnsFrom(t, op) ==
    /\ pc[t] # "returned"
    /\ pc'[t] = "returned"
    /\ frame'[t].op = op

\* C8 as stated: at the moment wait_until(deadline) returns, now() >= deadline,
\* also when other tasks concurrently call wait, advance or set.
C8_AtOrPastDeadline ==
    [][\A t \in Tasks :
          ReturnsFrom(t, "wait_until") =>
              TestTimeProvider_now(clocks'[frame'[t].c]) >= frame'[t].deadline]_vars

\* C8 as amended: at the moment wait_until(deadline) returns, now() >= deadline,
\* provided no step has moved the clock backward (a set to an earlier
\* instant, an advance or a wait of negative duration) since the call;
\* concurrent waits, advances and sets that move it forward are allowed.
C8_AtOrPastDeadlineUnlessMovedBack ==
    [][\A t \in Tasks :
          (/\ ReturnsFrom(t, "wait_until")
           /\ tracked'[frame'[t].c].back = frame'[t].back) =>
              TestTimeProvider_now(clocks'[frame'[t].c]) >= frame'[t].deadline]_vars

\* wait_until has returned from a future deadline after another task moved
\* the clock forward between its read of now() and its wait: the clock is
\* strictly past the deadline.
C8_Witness ==
    \E t \in Tasks :
        /\ Returned(t, "wait_until")
        /\ tracked[frame[t].c].back = frame[t].back
        /\ frame[t].deadline > frame[t].before.current_time
        /\ frame[t].now + frame[t].duration = frame[t].deadline
        /\ TestTimeProvider_now(clocks[frame[t].c]) > frame[t].deadline

\* C9 as stated: with wait_until(target), target > now(), running while the
\* controller calls advance and then set(target), the clock stands at target
\* at the moment wait_until returns, so that the now() the waiting task reads
\* right after it is target.
C9_ReadsTargetExactly ==
    [][(/\ ReturnsFrom(Caller, "wait_until")
        /\ frame'[Caller].deadline > frame'[Caller].before.current_time) =>
           TestTimeProvider_now(clocks'[frame'[Caller].c]) = frame'[Caller].deadline]_vars

\* The providers made by SafeTimeProvider::new(source).
ConstructedByNew == {p \in DOMAIN safe : origin[p].how = "new"}

\* C5: test_control() returns a handle if and only if the gated provider was
\* constructed from a virtual-clock selector (Test(start) or TestNow); for a
\* provider constructed from the real-clock selector it returns None and
\* is_test_mode() is false.
C5_ControlIffVirtualSelector ==
    \A p \in ConstructedByNew :
        /\ SafeTimeProvider_test_control(safe[p]) # {}
              <=> origin[p].source \in {"Test", "TestNow"}
        /\ origin[p].source = "System" =>
              /\ SafeTimeProvider_test_control(safe[p]) = {}
              /\ ~SafeTimeProvider_is_test_mode(safe[p])

\* The caller has asked a provider made from System for a handle and got
\* None, and holds a handle from a provider made from a virtual-clock
\* selector.
C5_Witness ==
    /\ frame[Caller].op = "test_control"
    /\ frame[Caller].result = {}
    /\ origin[frame[Caller].p] = [how |-> "new", source |-> "System", parent |-> 0]
    /\ \E q \in ConstructedByNew :
          /\ origin[q].source \in {"Test", "TestNow"}
          /\ SafeTimeProvider_test_control(safe[q]) \subseteq controls

\* C6: the presence of the control capability is fixed at construction: in
\* every step every provider that exists keeps it present or absent as it
\* was, a clone made in the step has it exactly when the provider it was
\* cloned from has it, and every handle that exists was the handle of a
\* virtual-clock-backed provider: no provider over the real clock, nor any
\* clone of one, ever yields a handle, so advance and set stay out of reach.
C6_ControlFixedAtConstruction ==
    [][/\ \A p \in DOMAIN safe :
             /\ p \in DOMAIN safe'
             /\ SafeTimeProvider_test_control(safe'[p])
                   = SafeTimeProvider_test_control(safe[p])
       /\ \A p \in DOMAIN safe' :
             /\ origin'[p].how = "clone" =>
                   (SafeTimeProvider_test_control(safe'[p]) = {}
                      <=> SafeTimeProvider_test_control(safe'[origin'[p].parent]) = {})
             /\ origin'[p].source = "System" =>
                   SafeTimeProvider_test_control(safe'[p]) = {}
       /\ \A control \in controls' :
             \E p \in DOMAIN safe' :
                 /\ origin'[p].source # "System"
                 /\ control \in SafeTimeProvider_test_control(safe'[p])]_vars

\* The caller, after an earlier call, has asked a clone of a real-clock
\* provider for a handle and got None.
C6_Witness ==
    /\ frame[Caller].op = "test_control"
    /\ frame[Caller].result = {}
    /\ budget = 0
    /\ origin[frame[Caller].p].how = "clone"
    /\ origin[frame[Caller].p].source = "System"

\* Task t calls `op` in this step.  For advance, set and reset_wait_tracking
\* the step is the whole operation.
Calls(t, op) ==
    /\ pc[t] = "idle"
    /\ pc'[t] # "idle"
    /\ frame'[t].op = op

\* C11 as stated: total_waited and wait_call_count of a clock never decrease
\* from one state to the next except in a reset_wait_tracking() step,
\* whatever wait, wait_until, advance, set and reset calls are made, with
\* durations of either sign.
C11_StatsNeverDecrease ==
    [][(~ \E t \in Tasks : Calls(t, "reset")) =>
          \A c \in DOMAIN clocks :
              /\ TestTimeProvider_total_waited(clocks'[c])
                    >= TestTimeProvider_total_waited(clocks[c])
              /\ TestTimeProvider_wait_call_count(clocks'[c])
                    >= TestTimeProvider_wait_call_count(clocks[c])]_vars

\* C12: advance(duration) and set(instant) leave total_waited and
\* wait_call_count as they were: of the clock's state only the current
\* instant changes (to now() + duration, to instant).
C12_AdvanceSetKeepStats ==
    [][\A t \in Tasks :
          (Calls(t, "advance") \/ Calls(t, "set")) =>
              LET c == frame'[t].c
                  time == IF frame'[t].op = "advance"
                          THEN TestTimeProvider_now(clocks[c]) + frame'[t].duration
                          ELSE frame'[t].deadline
              IN  clocks' = [clocks EXCEPT ![c].current_time = time]]_vars

\* An advance by a non-zero duration has been made on a clock with waits
\* recorded.
C12_Witness ==
    \E t \in Tasks :
        /\ Returned(t, "advance")
        /\ frame[t].duration # 0
        /\ frame[t].before.total_waited # 0
        /\ frame[t].before.wait_call_count > 0

\* C13: reset_wait_tracking() sets total_waited and wait_call_count to zero
\* and leaves now() as it was, whatever calls came before it.
C13_ResetZeroesStats ==
    [][\A t \in Tasks :
          Calls(t, "reset") =>
              LET c == frame'[t].c
              IN  /\ TestTimeProvider_total_waited(clocks'[c]) = 0
                  /\ TestTimeProvider_wait_call_count(clocks'[c]) = 0
                  /\ TestTimeProvider_now(clocks'[c]) = TestTimeProvider_now(clocks[c])]_vars

\* A reset has been made on a clock that a wait had moved and counted.
C13_Witness ==
    \E t \in Tasks :
        /\ Returned(t, "reset")
        /\ frame[t].before.total_waited # 0
        /\ frame[t].before.wait_call_count > 0
        /\ frame[t].before.current_time # tracked[frame[t].c].start
        /\ clocks[frame[t].c].wait_call_count = 0

\* The clones of virtual-clock providers.
VirtualClones ==
    {p \in DOMAIN safe : origin[p].how = "clone" /\ IsVirtual(origin[p].parent)}

\* C14: a clone of a virtual-clock gated provider shares the clock state with
\* the provider it was cloned from: at every reachable state, whatever was
\* done through either of them or through their handles, both read the same
\* now(), and the handles of both read the same total_waited() and
\* wait_call_count(), being handles on the one clock both providers read.
C14_CloneSharesClock ==
    \A p \in VirtualClones :
        LET q == origin[p].parent
        IN  /\ SafeTimeProvider_now(safe[p]) = SafeTimeProvider_now(safe[q])
            /\ SafeTimeProvider_test_control(safe[p]) # {}
            /\ \A h \in SafeTimeProvider_test_control(safe[p]),
                  k \in SafeTimeProvider_test_control(safe[q]) :
                   /\ TimeControl_total_waited(h) = TimeControl_total_waited(k)
                   /\ TimeControl_wait_call_count(h) = TimeControl_wait_call_count(k)
                   /\ TestTimeProvider_now(clocks[h.provider])
                         = SafeTimeProvider_now(safe[q])

\* A handle of a clone has been used to advance the clock by a non-zero
\* duration, and the provider the clone was made from reads the advanced
\* instant.
C14_Witness ==
    \E p \in VirtualClones :
        /\ Returned(Caller, "advance")
        /\ frame[Caller].duration # 0
        /\ TimeControl_new(frame[Caller].c) \in SafeTimeProvider_test_control(safe[p])
        /\ SafeTimeProvider_now(safe[origin[p].parent])
              = frame[Caller].before.current_time + frame[Caller].duration
        /\ SafeTimeProvider_now(safe[origin[p].parent]) # sys_time

\* C15: the control handles of a gated provider all work on the one state the
\* provider itself reads: in every state each handle's total_waited() and
\* wait_call_count() are those of the provider's clock and the handle's clock
\* shows the provider's now(); when an advance through a handle has
\* returned the provider's now() has moved by the duration, and when a wait
\* through the provider has returned every handle's statistics show it.
C15_HandlesShareState ==
    \A p \in DOMAIN safe :
        \A h \in SafeTimeProvider_test_control(safe[p]) :
            LET c == safe[p].inner.clock
                call == frame[Caller]
            IN  /\ TimeControl_total_waited(h) = TestTimeProvider_total_waited(clocks[c])
                /\ TimeControl_wait_call_count(h)
                      = TestTimeProvider_wait_call_count(clocks[c])
                /\ TestTimeProvider_now(clocks[h.provider]) = SafeTimeProvider_now(safe[p])
                /\ (pc[Caller] = "returned" /\ call.op = "advance" /\ call.c = h.provider) =>
                       SafeTimeProvider_now(safe[p])
                         = call.before.current_time + call.duration
                /\ (pc[Caller] = "returned" /\ call.op = "wait" /\ call.p = p) =>
                       /\ TimeControl_total_waited(h)
                             = call.before.total_waited + call.duration
                       /\ TimeControl_wait_call_count(h)
                             = call.before.wait_call_count + 1

\* The caller holds a handle of a provider and has waited through the
\* provider: the handle reads the wait.
C15_Witness ==
    /\ IsVirtual(frame[Caller].p)
    /\ Returned(Caller, "wait")
    /\ frame[Caller].duration # 0
    /\ \E h \in controls \cap SafeTimeProvider_test_control(safe[frame[Caller].p]) :
          /\ TimeControl_wait_call_count(h) = 1
          /\ TimeControl_total_waited(h) = frame[Caller].duration

\* C20: on the real-clock provider, wait(duration) with a negative duration
\* is a no-op: the call returns in the step that makes it, without
\* suspending the caller, and changes nothing.
C20_NegativeRealWaitNoOp ==
    [][\A t \in Tasks :
          (Calls(t, "wait") /\ frame'[t].c = 0 /\ frame'[t].duration < 0) =>
              /\ pc'[t] = "returned"
              /\ sys_time' = sys_time
              /\ clocks' = clocks]_vars

\* A wait of a negative duration on a real-clock provider has returned.
C20_Witness ==
    /\ pc[Caller] = "returned"
    /\ frame[Caller].op = "wait"
    /\ IsReal(frame[Caller].p)
    /\ frame[Caller].duration < 0

\* C16: mutations of one clock are atomic with respect to each other, so no
\* update is lost: when tasks interleave advance and wait calls on one shared
\* clock, whenever all calls issued have returned (in particular at the
\* end) wait_call_count is the number of wait calls issued and total_waited
\* the sum of their durations, whatever the interleaving was.
C16_NoLostUpdate ==
    Quiescent =>
        /\ TestTimeProvider_wait_call_count(clocks[1]) = tracked[1].n
        /\ TestTimeProvider_total_waited(clocks[1]) = tracked[1].sum

\* A wait and an advance, both of non-zero durations, have interleaved: the
\* wait was called before the advance was applied, the advance was applied
\* before the wait took the lock, and both have returned.
C16_Witness ==
    /\ Returned(Caller, "wait")
    /\ frame[Caller].duration # 0
    /\ Returned(Controller, "advance")
    /\ frame[Controller].duration # 0
    /\ frame[Caller].before = frame[Controller].before
    /\ tracked[1].n = 1

\* C19: a wait on a virtual clock does not block on an external advance:
\* under fair scheduling every wait call that has been made returns, with
\* no task ever calling advance or set.
C19_WaitReturns ==
    \A t \in Tasks : (pc[t] = "wait_enter") ~> (pc[t] = "returned")

\* A wait has returned while the other task has not called anything.
C19_Witness ==
    /\ Returned(Caller, "wait")
    /\ frame[Caller].duration > 0
    /\ frame[Controller] = NoFrame
    /\ budget = MaxCalls - 1
    /\ TestTimeProvider_wait_call_count(clocks[1]) = 1

\* C17 as stated (with the test's 24 hours and 24 advances scaled to
\* ServiceHours and AdvanceCount): once the hourly service has finished and
\* the controller has made all its advance(1h) calls, the service has
\* recorded exactly ServiceHours executions, the i-th at T0 + i hours
\* (counting from 0), and the clock has total_waited = ServiceHours and
\* wait_call_count = ServiceHours.
C17_HourlyServiceRunsEveryHour ==
    (pc[Caller] = "svc_done" /\ budget = 0) =>
        LET executions == services[Caller].executions
        IN  /\ Len(executions) = ServiceHours
            /\ \A i \in DOMAIN executions :
                  executions[i] = tracked[1].start + (i - 1) * HourStep
            /\ TestTimeProvider_total_waited(clocks[1]) = ServiceHours * HourStep
            /\ TestTimeProvider_wait_call_count(clocks[1]) = ServiceHours

\* The clocks whose state a step changes.
ChangedClocks == {c \in DOMAIN clocks : clocks'[c] # clocks[c]}

\* The clocks the tasks that take part in a step are working on.
ActingClocks ==
    {frame'[t].c : t \in {u \in DOMAIN pc : pc'[u] # pc[u] \/ frame'[u] # frame[u]}}

\* The executions the three services are to make (6h / 1h, 6h / 2h, 6h / 3h).
ExpectedExecutions == <<6, 3, 2>>

\* C18: independent virtual clocks are isolated: a step of any operation
\* (wait, wait_until, advance, set, reset_wait_tracking) changes the state
\* of no clock but the one it is made on; so three services with rounds of
\* 1h, 2h and 3h over 6 hours, each on a clock of its own, have made exactly
\* 6, 3 and 2 executions when they finish, whatever the interleaving and
\* whatever is done to a fourth clock meanwhile.
C18_ClocksIsolated ==
    [][/\ ChangedClocks \subseteq ActingClocks
       /\ Cardinality(ChangedClocks) <= 1
       /\ \A t \in Services :
             pc'[t] = "svc_done" =>
                 Len(services'[t].executions) = ExpectedExecutions[t]]_vars

\* The three services have finished, having run interleaved with each other
\* and with an operation that changed the fourth clock while the first
\* service was in its rounds.
C18_Witness ==
    /\ \A t \in Services : pc[t] = "svc_done"
    /\ clocks[Operator] # TestTimeProvider_new(0)
    /\ \A t \in Services :
          /\ Len(services[t].executions) = ExpectedExecutions[t]
          /\ clocks[t].wait_call_count = ExpectedExecutions[t]
    /\ budget = 0

\* C21: on the real-clock provider, wait(d) with d >= 0 does not return
\* early: once the call has returned, the real clock (as the caller reads it
\* then or later) is at least d past the real clock at the call.
C21_RealWaitNotEarly ==
    \A t \in Tasks :
        (/\ pc[t] = "returned"
         /\ frame[t].op = "wait"
         /\ frame[t].c = 0
         /\ frame[t].duration >= 0) =>
            sys_time >= frame[t].before.current_time + frame[t].duration

\* A wait of a positive duration on the real clock has returned, the real
\* clock having moved on while the caller slept.
C21_Witness ==
    \E t \in Tasks :
        /\ pc[t] = "returned"
        /\ frame[t].op = "wait"
        /\ IsReal(frame[t].p)
        /\ frame[t].duration > 0
        /\ sys_time = frame[t].before.current_time + frame[t].duration

\* C22: TimeSource::from_env maps the environment to a selector as follows:
\* TIME_SOURCE equal to "test" with a TIME_START that parses as RFC3339 gives
\* Test(start) with start the instant the text denotes; TIME_SOURCE "test"
\* with TIME_START missing or malformed gives TestNow; every other or unset
\* TIME_SOURCE gives System.
C22_FromEnvMapping ==
    loaded.read =>
        LET source == loaded.env.TIME_SOURCE
            start == loaded.env.TIME_START
            wantsTest == source.state = "set" /\ source.text = "test"
            parses == start.state = "set" /\ start.text.form = "rfc3339"
        IN  /\ (wantsTest /\ parses) =>
                  /\ loaded.selector.kind = "Test"
                  /\ loaded.selector.start + start.text.offset = start.text.local
            /\ (wantsTest /\ ~parses) => loaded.selector = TestNow
            /\ ~wantsTest => loaded.selector = System

\* TIME_SOURCE is "test" and TIME_START is set to a malformed text: the
\* selector loaded is TestNow, and a provider over a virtual clock starting at
\* the current time has been constructed from it.
C22_Witness ==
    /\ loaded.read
    /\ loaded.env.TIME_SOURCE = [state |-> "set", text |-> "test"]
    /\ loaded.env.TIME_START = [state |-> "set", text |-> NoStartText]
    /\ loaded.selector = TestNow
    /\ \E p \in ConstructedByNew :
          /\ origin[p].source = "TestNow"
          /\ IsVirtual(p)
          /\ tracked[safe[p].inner.clock].start = sys_time
          /\ sys_time > 0

\* C23: wait_until on a virtual clock is a read followed by a separate write:
\* what other tasks do to the clock between wait_until's now() and the write
\* of its wait stays in the result, so that right after the write the clock
\* is off the deadline by exactly the amount the clock moved in between;
\* it is strictly past the deadline (overshoot) or strictly before it
\* (undershoot) whenever an advance, set or wait moved it in between.
C23_UntilWritesOffset ==
    [][\A t \in Tasks :
          (/\ frame[t].op = "wait_until"
           /\ pc[t] = "wait_cs1"
           /\ pc'[t] = "wait_cs2") =>
              clocks'[frame[t].c].current_time - frame[t].deadline
                  = clocks[frame[t].c].current_time - frame[t].now]_vars

\* Overshoot: wait_until has just written, and the clock is strictly past the
\* deadline because another task moved it forward after wait_until read it.
C23_Witness ==
    \E t \in Tasks :
        /\ frame[t].op = "wait_until"
        /\ pc[t] = "wait_cs2"
        /\ frame[t].now + frame[t].duration = frame[t].deadline
        /\ clocks[frame[t].c].current_time > frame[t].deadline

\* Undershoot: the same with the clock moved backward in between.
C23_Undershoot ==
    \E t \in Tasks :
        /\ frame[t].op = "wait_until"
        /\ pc[t] = "wait_cs2"
        /\ frame[t].now + frame[t].duration = frame[t].deadline
        /\ clocks[frame[t].c].current_time < frame[t].deadline

\* C24: the lock of a virtual clock is never held across a suspension point:
\* whenever a task is suspended at the yield inside wait, it holds no guard
\* of the clock (the write guard is gone, and a read guard lives only within
\* a single read).
C24_NoLockAcrossYield ==
    \A t \in Tasks :
        pc[t] = "wait_yield" => lock[frame[t].c] # t

\* A task is suspended at the yield of its wait while another task is inside
\* the critical section of its own wait on the same clock.
C24_Witness ==
    \E t \in Tasks, u \in Tasks :
        /\ t # u
        /\ pc[t] = "wait_yield"
        /\ pc[u] \in {"wait_cs1", "wait_cs2", "wait_cs3"}
        /\ frame[u].c = frame[t].c
        /\ lock[frame[t].c] = u

\* C25: wait(d) on a virtual clock writes before its single yield, so
\* cancelling the waiting task at the yield leaves what it wrote in place:
\* once every wait issued has returned or been cancelled, the current
\* instant, total_waited and wait_call_count account for every wait issued
\* (+d, +d, +1 each), the cancelled ones included.
C25_CancelKeepsMutation ==
    (\A t \in Tasks : pc[t] \in {"idle", "returned", "cancelled"}) =>
        /\ TestTimeProvider_now(clocks[1]) = tracked[1].start + tracked[1].sum
        /\ TestTimeProvider_total_waited(clocks[1]) = tracked[1].sum
        /\ TestTimeProvider_wait_call_count(clocks[1]) = tracked[1].n

\* A wait of a non-zero duration was cancelled at its yield; it is the only
\* wait issued, and the clock stands where that wait put it.
C25_Witness ==
    \E t \in Tasks :
        /\ pc[t] = "cancelled"
        /\ frame[t].op = "wait"
        /\ frame[t].duration # 0
        /\ tracked[1].n = 1
        /\ \A u \in Tasks \ {t} : pc[u] = "idle"
        /\ clocks[1] = [current_time |-> frame[t].before.current_time + frame[t].duration,
                        total_waited |-> frame[t].duration,
                        wait_call_count |-> 1]

\* C26: wait(d) on a virtual clock is applied for every d, zero and negative
\* included: for a single caller, after the call the current instant is the
\* previous one plus d (earlier when d < 0), total_waited is the previous one
\* plus d, and wait_call_count is the previous one plus 1 (also when d = 0).
C26_WaitAppliesAnyDuration ==
    Returned(Caller, "wait") =>
        clocks[frame[Caller].c]
            = [current_time |-> frame[Caller].before.current_time + frame[Caller].duration,
               total_waited |-> frame[Caller].before.total_waited + frame[Caller].duration,
               wait_call_count |-> frame[Caller].before.wait_call_count + 1]

\* A wait of a negative duration has returned: the clock stands before the
\* instant it stood at before the call, and the call was counted.
C26_Witness ==
    /\ Returned(Caller, "wait")
    /\ frame[Caller].duration < 0
    /\ TestTimeProvider_now(clocks[frame[Caller].c]) < frame[Caller].before.current_time
    /\ TestTimeProvider_total_waited(clocks[frame[Caller].c]) < 0
    /\ TestTimeProvider_wait_call_count(clocks[frame[Caller].c]) = 1

\* A wait of duration zero has returned and was counted.
C26_ZeroCounted ==
    /\ Returned(Caller, "wait")
    /\ frame[Caller].duration = 0
    /\ TestTimeProvider_wait_call_count(clocks[frame[Caller].c])
          = frame[Caller].before.wait_call_count + 1

\* The tasks whose wait has applied some but not all of its three updates to
\* clock c.
InWrite(c) ==
    {t \in Tasks : pc[t] \in {"wait_cs2", "wait_cs3"} /\ frame[t].c = c}

\* Task u reads or writes the state of clock c in this step: a whole advance,
\* set, reset_wait_tracking, total_waited or wait_call_count; a now(); the
\* lock acquisition of a wait; one of the writes of a wait.
Touches(u, c) ==
    \/ pc[u] = "idle" /\ pc'[u] = "returned" /\ frame'[u].c = c
    \/ pc[u] = "returned" /\ pc'[u] = "idle" /\ frame[u].c = c
    \/ pc[u] = "wu_enter" /\ pc'[u] # "wu_enter" /\ frame[u].c = c
    \/ pc[u] = "wait_enter" /\ pc'[u] = "wait_cs1" /\ frame[u].c = c
    \/ pc[u] \in {"wait_cs1", "wait_cs2", "wait_cs3"} /\ pc'[u] # pc[u] /\ frame[u].c = c

\* C27: the three updates of a wait on a virtual clock take effect as one
\* atomic step under the write lock: while a wait has applied only some of
\* them, the waiting task holds the lock and no other operation (now,
\* total_waited, wait_call_count, advance, set, reset_wait_tracking, another
\* wait) reads or writes the clock.
C27_WaitUpdatesAtomic ==
    [][\A c \in DOMAIN clocks : \A t \in InWrite(c) :
          /\ lock[c] = t
          /\ \A u \in Tasks \ {t} : ~Touches(u, c)]_vars

\* A wait has applied its first update only (the clock has moved,
\* total_waited has not), while another task is about to take the lock for
\* its own wait on the same clock.
C27_Witness ==
    \E t \in Tasks, u \in Tasks :
        /\ t # u
        /\ pc[t] = "wait_cs2"
        /\ frame[t].duration # 0
        /\ clocks[frame[t].c].current_time # tracked[frame[t].c].start
        /\ clocks[frame[t].c].total_waited = 0
        /\ pc[u] = "wait_enter"
        /\ frame[u].c = frame[t].c

\* C28: on a virtual clock on which set and reset_wait_tracking are never
\* called, under every interleaving of wait, wait_until and advance, the
\* current instant is the start instant plus the sum of the durations of the
\* advance calls applied so far plus total_waited, in every state an
\* operation can observe (no wait is between its first and its last update,
\* which happen under the lock as one step for every observer).
C28_InstantIsStartPlusAdvancesPlusWaited ==
    lock[1] = NoTask =>
        TestTimeProvider_now(clocks[1])
            = tracked[1].start + tracked[1].shifted
                + TestTimeProvider_total_waited(clocks[1])

\* An advance and a wait of another task, both of non-zero durations, have
\* been applied, and a third call is a wait_until that has written.
C28_Witness ==
    /\ lock[1] = NoTask
    /\ tracked[1].shifted # 0
    /\ TestTimeProvider_total_waited(clocks[1]) # 0
    /\ TestTimeProvider_total_waited(clocks[1]) # tracked[1].shifted
    /\ \E t \in Tasks :
          /\ pc[t] \in {"wait_yield", "returned"}
          /\ frame[t].op = "wait_until"
          /\ frame[t].duration > 0

\* C29: as long as only wait and advance with non-negative durations and
\* wait_until are applied to a virtual clock, now() never decreases from one
\* state to the next, under every interleaving.
C29_NowNeverDecreases ==
    [][TestTimeProvider_now(clocks'[1]) >= TestTimeProvider_now(clocks[1])]_vars

\* The clock has been moved forward by an advance and by a wait_until that
\* ran concurrently with it.
C29_Witness ==
    /\ tracked[1].shifted > 0
    /\ TestTimeProvider_now(clocks[1]) > tracked[1].start + tracked[1].shifted
    /\ \E t \in Tasks :
          /\ pc[t] = "returned"
          /\ frame[t].op = "wait_until"
          /\ frame[t].duration > 0
          /\ frame[t].now # frame[t].before.current_time

\* C30: set(instant) makes now() equal to instant, whatever waits, advances
\* and sets came before, and advance(d) makes now() equal to the previous
\* now() plus d, for every d, negative included.
C30_SetAndAdvanceMoveNow ==
    /\ Returned(Caller, "set") =>
          TestTimeProvider_now(clocks[frame[Caller].c]) = frame[Caller].deadline
    /\ Returned(Caller, "advance") =>
          TestTimeProvider_now(clocks[frame[Caller].c])
              = frame[Caller].before.current_time + frame[Caller].duration

\* After a wait that moved the clock, set has put it on an earlier instant.
C30_Witness ==
    /\ Returned(Caller, "set")
    /\ tracked[1].n > 0
    /\ TestTimeProvider_total_waited(clocks[1]) > 0
    /\ frame[Caller].deadline < frame[Caller].before.current_time
    /\ TestTimeProvider_now(clocks[1]) = frame[Caller].deadline

\* After a wait that moved the clock, an advance of a negative duration has
\* put it back.
C30_NegativeAdvance ==
    /\ Returned(Caller, "advance")
    /\ tracked[1].n > 0
    /\ frame[Caller].duration < 0
    /\ frame[Caller].before.current_time # tracked[1].start
    /\ TestTimeProvider_now(clocks[1]) < frame[Caller].before.current_time

\* C31: a virtual clock constructed with Test(start) begins with
\* now() = start, total_waited = 0 and wait_call_count = 0.
C31_TestStartsAtStart ==
    [][(/\ Len(safe') = Len(safe) + 1
        /\ origin'[Len(safe')].how = "new"
        /\ origin'[Len(safe')].source = "Test") =>
           LET self == safe'[Len(safe')]
               state == clocks'[self.inner.clock]
           IN  /\ Len(clocks') = Len(clocks) + 1
               /\ self.inner.clock = Len(clocks')
               /\ TestTimeProvider_now(state) = tracked'[self.inner.clock].start
               /\ TestTimeProvider_total_waited(state) = 0
               /\ TestTimeProvider_wait_call_count(state) = 0]_vars

\* A second provider has been constructed with Test(1) after the first
\* clock had been waited on and stands elsewhere: its clock is new and stands
\* at 1 with nothing tracked.
C31_Witness ==
    /\ Len(safe) = 2
    /\ origin[2] = [how |-> "new", source |-> "Test", parent |-> 0]
    /\ IsVirtual(1)
    /\ safe[2].inner.clock # safe[1].inner.clock
    /\ TestTimeProvider_wait_call_count(clocks[safe[1].inner.clock]) > 0
    /\ TestTimeProvider_now(clocks[safe[1].inner.clock]) # 1
    /\ tracked[safe[2].inner.clock].start = 1
    /\ clocks[safe[2].inner.clock] = [current_time |-> 1, total_waited |-> 0,
                                      wait_call_count |-> 0]

\* The operations that only read.
ReadOnlyOps == {"now", "is_test_mode", "total_waited", "wait_call_count", "test_control"}

\* The caller performs a read-only operation in this step: one of ReadOnlyOps
\* as a call of its own, the now() it reads after a call has returned, or
\* the clone of a gated provider.
ReadOnlyStep ==
    \/ /\ pc[Caller] = "idle"
       /\ budget' = budget - 1
       /\ frame'[Caller].op \in ReadOnlyOps
    \/ pc[Caller] = "returned" /\ pc'[Caller] = "idle"
    \/ /\ Len(safe') = Len(safe) + 1
       /\ origin'[Len(safe')].how = "clone"

\* C32: the read-only operations now(), is_test() / is_test_mode(),
\* total_waited(), wait_call_count() and test_control(), and cloning a gated
\* provider, leave the state of every virtual clock (current instant,
\* total_waited, wait_call_count) unchanged.
C32_ReadsChangeNothing ==
    [][ReadOnlyStep => clocks' = clocks]_vars

\* total_waited has just been read through a control handle, on a clock that
\* a wait of a non-zero duration had moved: the value read is that duration,
\* and the clock still holds it.
C32_Witness ==
    /\ pc[Caller] = "returned"
    /\ frame[Caller].op = "total_waited"
    /\ frame[Caller].result # {0}
    /\ frame[Caller].result = {TestTimeProvider_total_waited(clocks[frame[Caller].c])}
    /\ TestTimeProvider_wait_call_count(clocks[frame[Caller].c]) = 1

\* C33: tasks performing any mix of now, wait, wait_until, advance, set,
\* reset_wait_tracking, total_waited and wait_call_count on one or several
\* virtual clocks never deadlock: under fair scheduling every call that has
\* been made returns (a call inside its critical section included, so every
\* lock that is held is released).
C33_NoDeadlock ==
    \A t \in Tasks : (pc[t] \notin {"idle", "returned"}) ~> (pc[t] = "returned")

\* One task is inside the critical section of a wait on the second clock
\* while another is at the now() of a wait_until on the same clock, which
\* needs the lock.
C33_Witness ==
    \E t \in Tasks, u \in Tasks :
        /\ pc[t] = "wait_cs1"
        /\ frame[t].c = 2
        /\ lock[2] = t
        /\ pc[u] = "wu_enter"
        /\ frame[u].c = 2

\* C34: for every gated provider, however constructed (new with any
\* selector, new_from_test_provider, or clone), is_test_mode() is true
\* exactly when test_control() returns a handle.
C34_TestModeIffControl ==
    \A p \in DOMAIN safe :
        SafeTimeProvider_is_test_mode(safe[p])
            <=> SafeTimeProvider_test_control(safe[p]) # {}

\* Next to the provider made by new there is one made by
\* new_from_test_provider: it is in test mode and gives a handle on its own
\* clock.
C34_Witness ==
    /\ Len(safe) = 2
    /\ origin[2].how = "new_from_test_provider"
    /\ SafeTimeProvider_is_test_mode(safe[2])
    /\ SafeTimeProvider_test_control(safe[2]) = {TimeControl_new(2)}

\* Next to the provider made by new there is one over the real clock: it is
\* not in test mode and gives no handle.
C34_RealProvider ==
    /\ Len(safe) = 2
    /\ origin[2].source = "System"
    /\ ~SafeTimeProvider_is_test_mode(safe[2])
    /\ SafeTimeProvider_test_control(safe[2]) = {}

\* C35: a gated provider built with new_from_test_provider(p) shares p's
\* clock state: a direct p.advance or p.set is what the gated provider's
\* now() reads afterwards, a wait through the gated provider is counted in
\* p.wait_call_count(), and the gated provider's control handle is a handle
\* on p.
C35_GatedSharesGiven ==
    /\ (pc[Caller] = "returned" /\ frame[Caller].op = "direct_advance") =>
          SafeTimeProvider_now(safe[Gated])
              = frame[Caller].before.current_time + frame[Caller].duration
    /\ (pc[Caller] = "returned" /\ frame[Caller].op = "direct_set") =>
          SafeTimeProvider_now(safe[Gated]) = frame[Caller].deadline
    /\ (pc[Caller] \in {"idle", "returned"}) =>
          TestTimeProvider_wait_call_count(clocks[Given]) = tracked[1].n + tracked[2].n
    /\ SafeTimeProvider_test_control(safe[Gated]) = {TimeControl_new(Given)}

\* A wait through the gated provider has returned and was counted on the
\* test provider given, which a direct advance had moved before.
C35_Witness ==
    /\ pc[Caller] = "returned"
    /\ frame[Caller].op = "wait"
    /\ frame[Caller].p = Gated
    /\ frame[Caller].duration # 0
    /\ tracked[Given].shifted # 0
    /\ TestTimeProvider_wait_call_count(clocks[Given]) = 1
    /\ TestTimeProvider_now(clocks[Given])
          = tracked[Given].start + tracked[Given].shifted + frame[Caller].duration

\* A direct set on the test provider given has returned, to an instant the
\* clock was not at, and the gated provider reads that instant.
C35_DirectSetSeen ==
    /\ pc[Caller] = "returned"
    /\ frame[Caller].op = "direct_set"
    /\ frame[Caller].deadline # frame[Caller].before.current_time
    /\ SafeTimeProvider_now(safe[Gated]) = frame[Caller].deadline

\* C36: on the real-clock provider, wait_until(deadline) with
\* deadline <= now() returns immediately without suspending; with
\* deadline > now() it suspends for deadline - now(), computed from the one
\* now() it read, and returns only when that interval has passed.
C36_RealWaitUntil ==
    [][\A t \in Tasks :
          /\ (Calls(t, "wait_until") /\ frame'[t].c = 0) =>
                IF frame'[t].deadline <= sys_time
                THEN /\ pc'[t] = "returned"
                     /\ sys_time' = sys_time
                ELSE /\ pc'[t] = "sys_sleep"
                     /\ frame'[t].now = sys_time
                     /\ frame'[t].duration = frame'[t].deadline - sys_time
          /\ (pc[t] = "sys_sleep" /\ frame[t].op = "wait_until" /\ pc'[t] = "returned") =>
                sys_time >= frame[t].deadline]_vars

\* A wait_until called on the real clock after the clock had moved is
\* suspended, for the distance from the clock to its deadline.
C36_Witness ==
    \E t \in Tasks :
        /\ pc[t] = "sys_sleep"
        /\ frame[t].op = "wait_until"
        /\ IsReal(frame[t].p)
        /\ frame[t].now > 0
        /\ frame[t].duration = frame[t].deadline - frame[t].now
        /\ frame[t].duration > 0

\* A wait_until called on the real clock with a deadline that is not in the
\* future has returned, without the clock having moved.
C36_Immediate ==
    \E t \in Tasks :
        /\ pc[t] = "returned"
        /\ frame[t].op = "wait_until"
        /\ IsReal(frame[t].p)
        /\ frame[t].deadline <= frame[t].before.current_time
        /\ sys_time = frame[t].before.current_time
        /\ sys_time > 0

\* C37: every operation of a control handle (advance, set, total_waited,
\* wait_call_count, reset_wait_tracking) has exactly the effect and the
\* result of the operation of the same name of the virtual-clock provider
\* under it, and the handle has no state of its own: the call changes
\* nothing but that provider's state.
C37_HandleIsProvider ==
    [][\A t \in Tasks :
          /\ Calls(t, "advance") =>
                clocks' = [clocks EXCEPT ![frame'[t].c] =
                              TestTimeProvider_advance(@, frame'[t].duration)]
          /\ Calls(t, "set") =>
                clocks' = [clocks EXCEPT ![frame'[t].c] =
                              TestTimeProvider_set(@, frame'[t].deadline)]
          /\ Calls(t, "reset") =>
                clocks' = [clocks EXCEPT ![frame'[t].c] =
                              TestTimeProvider_reset_wait_tracking(@)]
          /\ Calls(t, "total_waited") =>
                /\ clocks' = clocks
                /\ frame'[t].result
                      = {TestTimeProvider_total_waited(clocks[frame'[t].c])}
          /\ Calls(t, "wait_call_count") =>
                /\ clocks' = clocks
                /\ frame'[t].result
                      = {TestTimeProvider_wait_call_count(clocks[frame'[t].c])}
          /\ (\E op \in {"advance", "set", "reset", "total_waited", "wait_call_count"} :
                Calls(t, op)) =>
                /\ controls' = controls
                /\ safe' = safe
                /\ lock' = lock]_vars

\* A task has put the clock on another instant through the handle after
\* another task's wait had moved it; the wait stays counted.
C37_Witness ==
    \E t \in Tasks :
        /\ Returned(t, "set")
        /\ frame[t].deadline # frame[t].before.current_time
        /\ frame[t].before.wait_call_count = 1
        /\ frame[t].before.total_waited # 0
        /\ clocks[frame[t].c] = TestTimeProvider_set(frame[t].before, frame[t].deadline)

====
